---- MODULE Spec2Model ----
(***************************************************************************)
(* A model of conduit (die-net/conduit).                                   *)
(*                                                                         *)
(* Part I  - internal/ssh/client.go: the SSH Client that multiplexes       *)
(*           direct-tcpip channels over one cached transport, with the     *)
(*           singleflight-guarded connect and the single retry.            *)
(* Part II - internal/proxy: the SOCKS5 and HTTP CONNECT connection        *)
(*           handlers (negotiate, dial, reply, bridge).                    *)
(***************************************************************************)
EXTENDS Integers, Sequences, FiniteSets, TLC

(***************************************************************************)
(* Bounds of the model.                                                    *)
(***************************************************************************)
\* Number of DialContext calls issued on the one Client (each its own ctx).
NCallers == 2
\* Number of newTransport executions the model follows (transport ids).
MaxTransports == 2

\* Number of inbound connections the listeners accept.
NConns == 2
\* Number of outbound dialer calls the model follows.
NDials == 2
\* Accept calls that fail on an open listener.
MaxAcceptErrors == 1
\* Connections the listeners of run accept.
NPConns == 2
\* A positive Config.NegotiationTimeout.
MaxTimeout == 1
\* Number of bytes each peer of the bridge sends.
MaxBytes == 2
\* Hosts and host keys of the known-hosts checks, and how many checks are made.
NHosts == 2
NKeys == 2
MaxChecks == 3

\* Number of events the environment produces in one behaviour: ctx
\* cancellations, transport deaths, failed handshakes, refused channel opens
\* and channels closed by their holder.
MaxFaults == 2

Callers == 1..NCallers
Transports == 1..MaxTransports
Conns == 1..NConns
Dials == 1..NDials
Hosts == 1..NHosts
PConns == 1..NPConns
Keys == 1..NKeys
\* Config.NegotiationTimeout: unset, or some positive duration.
NegotiationTimeouts == {0, MaxTimeout}

(***************************************************************************)
(* Part I.  internal/ssh/client.go                                         *)
(***************************************************************************)

\* A nil *ssh.Client (c.sshClient = nil, a nil local).
NoTransport == 0
\* singleflight.Group.m has no entry for "connect": no call is in flight.
NoKey == 0
\* context.Background(): a context that is never cancelled.  Other contexts
\* are named by the caller that owns them.
Background == 0

VARIABLES
    sshClient,   \* Client.sshClient: the cached transport, or NoTransport
    sfKey,       \* singleflight.Group.m["connect"]: the call in flight (its starter), or NoKey
    sfCall,      \* per starter: the singleflight call goroutine (doCall) it launched
    res,         \* per caller: the buffered result channel DoChan returned to it
    tr,          \* per transport id: what newTransport made of it
    nextT,       \* the id the next newTransport execution takes
    pc,          \* per caller: position inside DialContext
    ctxDone,     \* per caller: its ctx has been cancelled
    client,      \* per caller: DialContext's local `client`
    openLog,     \* per caller: the outcomes of its client.DialContext (channel open) attempts
    invals,      \* per caller: how many times its DialContext ran c.Close()
    closeLocal,  \* per caller: Close()'s local `client` between clearing and closing
    ret,         \* per caller: what DialContext returned
    faults,      \* how many events the environment has produced so far
    chan,        \* per caller: the channelConn it was returned (channel + AfterFunc hook)
    inb,         \* per inbound connection: its handler's state (Part II)
    dial,        \* per outbound dial: the dialer call's state (Part III)
    strm,        \* per stream of the bridge: the conn and what is in flight (Part IV)
    cp,          \* per source stream: the copyClose goroutine reading from it
    grp,         \* CopyBidirectional's errgroup, its context and the hook on it
    khFile,      \* the known_hosts file: its lines in order (Part V)
    khCb,        \* the host key callback: its mode and the database it loaded
    khLast,      \* the last host key check and its result
    khChecks,    \* how many host key checks were made
    s5c,         \* the SOCKS5 client of one connection (Part VI)
    s5s,         \* the SOCKS5 server of that connection
    s5p,         \* the connection between them: frames in flight, closes
    proc,        \* run: its configuration, context, errgroup, result (Part VII)
    lsn,         \* the listeners run starts and their serve loops
    pcn,         \* the connections the serve loops accepted
    nw           \* the call of dialer.New: its input and result (Part VIII)

sshVars == <<sshClient, sfKey, sfCall, res, tr, nextT, pc, ctxDone, client,
             openLog, invals, closeLocal, ret, faults, chan>>
pxVars == <<inb>>
dlVars == <<dial>>
brVars == <<strm, cp, grp>>
khVars == <<khFile, khCb, khLast, khChecks>>
s5Vars == <<s5c, s5s, s5p>>
runVars == <<proc, lsn, pcn>>
newVars == <<nw>>
vars == <<sshClient, sfKey, sfCall, res, tr, nextT, pc, ctxDone, client,
          openLog, invals, closeLocal, ret, faults, chan, inb, dial, strm, cp, grp,
          khFile, khCb, khLast, khChecks, s5c, s5s, s5p, proc, lsn, pcn, nw>>
\* What the actions of one part leave alone: the variables of the others.
notSSH == <<pxVars, dlVars, brVars, khVars, s5Vars, runVars, newVars>>
notPx == <<sshVars, dlVars, brVars, khVars, s5Vars, runVars, newVars>>
notDl == <<sshVars, pxVars, brVars, khVars, s5Vars, runVars, newVars>>
notBr == <<sshVars, pxVars, dlVars, khVars, s5Vars, runVars, newVars>>
notKh == <<sshVars, pxVars, dlVars, brVars, s5Vars, runVars, newVars>>
notS5 == <<sshVars, pxVars, dlVars, brVars, khVars, runVars, newVars>>
notRun == <<sshVars, pxVars, dlVars, brVars, khVars, s5Vars, newVars>>
notNew == <<sshVars, pxVars, dlVars, brVars, khVars, s5Vars, runVars>>

(***************************************************************************)
(* Errors.  An error value is its kind and the transport it came from, so  *)
(* that two failures on different transports are different errors.         *)
(***************************************************************************)
NoErr == [kind |-> "nil", t |-> NoTransport]
CtxErr == [kind |-> "ctx", t |-> NoTransport]
UnsupportedNetworkErr == [kind |-> "unsupported", t |-> NoTransport]
HandshakeErr(t) == [kind |-> "handshake", t |-> t]
OpenChannelErr(t) == [kind |-> "openchannel", t |-> t]
TransportErr(t) == [kind |-> "transport", t |-> t]

\* errors.As(err, &openErr) with openErr *ssh.OpenChannelError
IsOpenChannelErrorNever(e) == FALSE
IsOpenChannelError(e) == e.kind = "openchannel"

NoRet == [status |-> "none", err |-> NoErr, wrapped |-> FALSE]
RetOK == [status |-> "ok", err |-> NoErr, wrapped |-> FALSE]
RetErr(e, w) == [status |-> "err", err |-> e, wrapped |-> w]

NoRes == [ready |-> FALSE, val |-> NoTransport, err |-> NoErr]
NoCall == [pc |-> "idle", chans |-> {}, t |-> NoTransport, val |-> NoTransport,
           err |-> NoErr, ctx |-> Background]
NoChan == [t |-> NoTransport, closed |-> FALSE, hook |-> "none", closes |-> 0]
NoTr == [state |-> "none", closed |-> FALSE, dead |-> FALSE]

\* A transport on which a channel open can still succeed.
Usable(t) == tr[t].state = "up" /\ ~tr[t].closed /\ ~tr[t].dead

SSHInit ==
    /\ sshClient = NoTransport
    /\ sfKey = NoKey
    /\ sfCall = [c \in Callers |-> NoCall]
    /\ res = [c \in Callers |-> NoRes]
    /\ tr = [t \in Transports |-> NoTr]
    /\ nextT = 1
    /\ pc = [c \in Callers |-> "idle"]
    /\ ctxDone = [c \in Callers |-> FALSE]
    /\ client = [c \in Callers |-> NoTransport]
    /\ openLog = [c \in Callers |-> <<>>]
    /\ invals = [c \in Callers |-> 0]
    /\ closeLocal = [c \in Callers |-> NoTransport]
    /\ ret = [c \in Callers |-> NoRet]
    /\ chan = [c \in Callers |-> NoChan]
    /\ faults = 0

(***************************************************************************)
(* DialContext (client.go 113-150), one call per caller.                   *)
(***************************************************************************)
Networks == {"tcp", "udp"}

\* strings.HasPrefix(network, "tcp")
HasPrefixTcp(network) == network = "tcp"

\* The call is in its first attempt until it has run c.Close().
FirstAttempt(c) == invals[c] = 0

\* `return nil, err` after the second getTransport failed with err2 (line 137).
ReconnectFailureErrIsErr2(err, err2) == err2
ReconnectFailureErr(err, err2) == err

\* Where DialContext goes when the retried channel open failed (line 141-143).
RetryFailedPcLoops == "close_clear"
RetryFailedPc == "done"

\* What the context.AfterFunc hook of a returned channelConn closes (146-148).
CancelHookClosesTransport == "transport"
CancelHookCloses == "channel"

\* DialContext once getTransport returned the error e.
GetTransportFailed(c, e) ==
    /\ pc' = [pc EXCEPT ![c] = "done"]
    /\ ret' = [ret EXCEPT ![c] =
           IF FirstAttempt(c) THEN RetErr(e, FALSE)
           ELSE RetErr(ReconnectFailureErr(openLog[c][1], e), FALSE)]

\* Lines 114-118 and 172-177: the network check, which touches nothing
\* shared, and getTransport's first read of the cache under the mutex.
Start(c, network) ==
    /\ pc[c] = "idle"
    /\ IF ~HasPrefixTcp(network)
       THEN /\ pc' = [pc EXCEPT ![c] = "done"]
            /\ ret' = [ret EXCEPT ![c] = RetErr(UnsupportedNetworkErr, FALSE)]
            /\ client' = client
       ELSE /\ ret' = ret
            /\ IF sshClient # NoTransport
               THEN /\ client' = [client EXCEPT ![c] = sshClient]
                    /\ pc' = [pc EXCEPT ![c] = "open"]
               ELSE /\ client' = client
                    /\ pc' = [pc EXCEPT ![c] = "gt_dochan"]
    /\ UNCHANGED <<sshClient, sfKey, sfCall, res, tr, nextT, ctxDone,
                   openLog, invals, closeLocal, chan, faults, notSSH>>

(***************************************************************************)
(* getTransport (client.go 171-211).                                       *)
(***************************************************************************)
\* Lines 172-177 again, for the getTransport of line 135.
GtRead(c) ==
    /\ pc[c] = "gt_read"
    /\ IF sshClient # NoTransport
       THEN /\ client' = [client EXCEPT ![c] = sshClient]
            /\ pc' = [pc EXCEPT ![c] = "open"]
       ELSE /\ client' = client
            /\ pc' = [pc EXCEPT ![c] = "gt_dochan"]
    /\ UNCHANGED <<sshClient, sfKey, sfCall, res, tr, nextT, ctxDone,
                   openLog, invals, closeLocal, ret, chan, faults, notSSH>>

\* singleflight.Group.DoChan: the call registered under "connect", if any.
SfLookupNone == NoKey
SfLookup == sfKey

\* The context newTransport runs under (line 191: context.Background()).
ConnectCtxCaller(c) == c
ConnectCtx(c) == Background

\* Line 179: c.sf.DoChan("connect", fn): join the call in flight or launch one.
GtDoChan(c) ==
    /\ pc[c] = "gt_dochan"
    /\ LET k == SfLookup IN
       IF k # NoKey
       THEN /\ sfCall' = [sfCall EXCEPT ![k].chans = @ \cup {c}]
            /\ sfKey' = sfKey
       ELSE /\ sfCall[c].pc = "idle"
            /\ sfCall' = [sfCall EXCEPT ![c] =
                   [NoCall EXCEPT !.pc = "check", !.chans = {c}, !.ctx = ConnectCtx(c)]]
            /\ sfKey' = c
    /\ res' = [res EXCEPT ![c] = NoRes]
    /\ pc' = [pc EXCEPT ![c] = "gt_wait"]
    /\ UNCHANGED <<sshClient, tr, nextT, ctxDone, client, openLog, invals,
                   closeLocal, ret, chan, faults, notSSH>>

\* Lines 202-204: select { case <-ctx.Done(): return nil, ctx.Err() }
GtWaitCtx(c) ==
    /\ pc[c] = "gt_wait"
    /\ ctxDone[c]
    /\ GetTransportFailed(c, CtxErr)
    /\ UNCHANGED <<sshClient, sfKey, sfCall, res, tr, nextT, ctxDone, client,
                   openLog, invals, closeLocal, chan, faults, notSSH>>

\* Lines 205-210: select { case res := <-ch: ... }
GtWaitRes(c) ==
    /\ pc[c] = "gt_wait"
    /\ res[c].ready
    /\ IF res[c].err # NoErr
       THEN GetTransportFailed(c, res[c].err) /\ client' = client
       ELSE /\ client' = [client EXCEPT ![c] = res[c].val]
            /\ pc' = [pc EXCEPT ![c] = "open"]
            /\ ret' = ret
    /\ res' = [res EXCEPT ![c] = NoRes]
    /\ UNCHANGED <<sshClient, sfKey, sfCall, tr, nextT, ctxDone,
                   openLog, invals, closeLocal, chan, faults, notSSH>>

(***************************************************************************)
(* The function handed to DoChan (client.go 179-200), run by the           *)
(* singleflight call goroutine of starter k, and newTransport (215-265).   *)
(***************************************************************************)
\* Lines 181-186: the double-check of the cache under the mutex.
SfDoubleCheckSkipped == NoTransport
SfDoubleCheck == sshClient

SfCheck(k) ==
    /\ sfCall[k].pc = "check"
    /\ LET seen == SfDoubleCheck IN
       IF seen # NoTransport
       THEN /\ sfCall' = [sfCall EXCEPT ![k].pc = "deliver", ![k].val = seen]
            /\ UNCHANGED <<tr, nextT>>
       ELSE /\ nextT <= MaxTransports
            /\ tr' = [tr EXCEPT ![nextT].state = "hs"]
            /\ sfCall' = [sfCall EXCEPT ![k].pc = "hs", ![k].t = nextT]
            /\ nextT' = nextT + 1
    /\ UNCHANGED <<sshClient, sfKey, res, pc, ctxDone, client, openLog, invals,
                   closeLocal, ret, chan, faults, notSSH>>

\* newTransport's outcomes: the TCP dial and ssh.NewClientConn succeed, or one
\* of them fails; the AfterFunc of line 227 closes conn when ctx is cancelled.
HandshakeOutcomes(ctx) ==
    IF ctx # Background /\ ctxDone[ctx] THEN {"aborted"}
    ELSE {"ok"} \cup (IF faults < MaxFaults THEN {"fail"} ELSE {})

\* Lines 192-199: `if err != nil { return nil, err }`, else c.sshClient =
\* client under the mutex: whether fn stores what newTransport returned.
StoresTransportAlways(ok) == TRUE
StoresTransport(ok) == ok

\* newTransport returns and fn runs to its end.  Until fn stores it, the new
\* transport is known to nobody else, so the store is taken in the same step.
SfHandshake(k) ==
    /\ sfCall[k].pc = "hs"
    /\ \E o \in HandshakeOutcomes(sfCall[k].ctx) :
         LET t == sfCall[k].t IN
         /\ tr' = IF o = "ok" THEN [tr EXCEPT ![t].state = "up"]
                  ELSE [tr EXCEPT ![t].state = o, ![t].closed = TRUE]
         /\ faults' = IF o = "fail" THEN faults + 1 ELSE faults
         /\ sshClient' = IF StoresTransport(o = "ok") THEN t ELSE sshClient
         /\ sfCall' = [sfCall EXCEPT ![k].pc = "deliver",
                          ![k].val = IF o = "ok" THEN t ELSE NoTransport,
                          ![k].err = IF o = "ok" THEN NoErr ELSE HandshakeErr(t)]
    /\ UNCHANGED <<sfKey, res, nextT, pc, ctxDone, client, openLog,
                   invals, closeLocal, ret, chan, notSSH>>

\* singleflight doCall's epilogue deletes the call's key, whatever fn
\* returned.
KeyAfterCallKept(k) == sfKey
KeyAfterCall(k) == IF sfKey = k THEN NoKey ELSE sfKey

\* singleflight doCall's epilogue: under g.mu, delete the key if it is still
\* this call's and send the result to every channel registered on the call.
\* The channels are buffered; one whose caller has left getTransport is never
\* read again, so only the waiting callers' channels are followed.
SfDeliver(k) ==
    /\ sfCall[k].pc = "deliver"
    /\ sfKey' = KeyAfterCall(k)
    /\ res' = [c \in Callers |->
                 IF c \in sfCall[k].chans /\ pc[c] = "gt_wait"
                 THEN [ready |-> TRUE, val |-> sfCall[k].val, err |-> sfCall[k].err]
                 ELSE res[c]]
    /\ sfCall' = [sfCall EXCEPT ![k] = NoCall]
    /\ UNCHANGED <<sshClient, tr, nextT, pc, ctxDone, client, openLog, invals,
                   closeLocal, ret, chan, faults, notSSH>>

(***************************************************************************)
(* The channel open, client.DialContext(ctx, "tcp", address) of             *)
(* golang.org/x/crypto/ssh, and what DialContext does with its result      *)
(* (client.go 123-149).                                                    *)
(***************************************************************************)
\* The results a channel open on transport t can have for caller c: ctx.Err()
\* when ctx is done, a transport-level error when t cannot carry it, and
\* otherwise success or the peer's OpenChannelError.
OpenOutcomes(c, t) ==
    IF ctxDone[c] THEN {CtxErr}
    ELSE IF ~Usable(t) THEN {TransportErr(t)}
    ELSE {NoErr} \cup (IF faults < MaxFaults THEN {OpenChannelErr(t)} ELSE {})

Open(c) ==
    /\ pc[c] = "open"
    /\ \E e \in OpenOutcomes(c, client[c]) :
         /\ openLog' = [openLog EXCEPT ![c] = Append(@, e)]
         /\ faults' = IF e.kind = "openchannel" THEN faults + 1 ELSE faults
         /\ IF e = NoErr
            THEN /\ chan' = [chan EXCEPT ![c] =
                        [t |-> client[c], closed |-> FALSE, hook |-> "armed",
                         closes |-> 0]]
                 /\ ret' = [ret EXCEPT ![c] = RetOK]
                 /\ pc' = [pc EXCEPT ![c] = "done"]
            ELSE IF FirstAttempt(c)
            THEN IF IsOpenChannelError(e)
                 THEN /\ ret' = [ret EXCEPT ![c] = RetErr(e, TRUE)]
                      /\ pc' = [pc EXCEPT ![c] = "done"]
                      /\ chan' = chan
                 ELSE /\ pc' = [pc EXCEPT ![c] = "close_clear"]
                      /\ UNCHANGED <<ret, chan>>
            ELSE /\ ret' = [ret EXCEPT ![c] =
                        IF RetryFailedPc = "done" THEN RetErr(e, TRUE) ELSE @]
                 /\ pc' = [pc EXCEPT ![c] = RetryFailedPc]
                 /\ chan' = chan
    /\ client' = [client EXCEPT ![c] = IF pc'[c] = "done" THEN NoTransport ELSE @]
    /\ UNCHANGED <<sshClient, sfKey, sfCall, res, tr, nextT, ctxDone,
                   invals, closeLocal, notSSH>>

\* Line 156: `c.sshClient = nil` under the mutex.
CacheAfterCloseKept(cur) == cur
CacheAfterClose(cur) == NoTransport

(***************************************************************************)
(* Close (client.go 153-163), as called by DialContext at line 134.        *)
(***************************************************************************)
\* Lines 154-157: take and clear the cache under the mutex.
CloseClear(c) ==
    /\ pc[c] = "close_clear"
    /\ closeLocal' = [closeLocal EXCEPT ![c] = sshClient]
    /\ sshClient' = CacheAfterClose(sshClient)
    /\ invals' = [invals EXCEPT ![c] = @ + 1]
    /\ pc' = [pc EXCEPT ![c] = "close_close"]
    /\ UNCHANGED <<sfKey, sfCall, res, tr, nextT, ctxDone, client, openLog,
                   ret, chan, faults, notSSH>>

\* Line 160: client.Close() closes the transport.
ClosedByCloseNot(was) == was
ClosedByClose(was) == TRUE

\* Lines 159-162: client.Close() on what was taken, if anything.
CloseClose(c) ==
    /\ pc[c] = "close_close"
    /\ tr' = IF closeLocal[c] # NoTransport
             THEN [tr EXCEPT ![closeLocal[c]].closed = ClosedByClose(@)] ELSE tr
    /\ closeLocal' = [closeLocal EXCEPT ![c] = NoTransport]
    /\ pc' = [pc EXCEPT ![c] = "gt_read"]
    /\ UNCHANGED <<sshClient, sfKey, sfCall, res, nextT, ctxDone, client,
                   openLog, invals, ret, chan, faults, notSSH>>

(***************************************************************************)
(* The environment: cancellation, the returned channelConn, the network.   *)
(***************************************************************************)
\* The caller's ctx is cancelled.  DialContext reads ctx only in getTransport's
\* select and in the channel open, and the AfterFunc hook reads it afterwards:
\* a cancellation at any other moment is the same cancellation taken when the
\* call reaches one of these points.
CtxObserved(c) ==
    \/ pc[c] \in {"gt_wait", "open"}
    \/ chan[c].hook = "armed"

Cancel(c) ==
    /\ ~ctxDone[c]
    /\ CtxObserved(c)
    /\ faults < MaxFaults
    /\ faults' = faults + 1
    /\ ctxDone' = [ctxDone EXCEPT ![c] = TRUE]
    /\ UNCHANGED <<sshClient, sfKey, sfCall, res, tr, nextT, pc, client, openLog,
                   invals, closeLocal, ret, chan, notSSH>>

\* Lines 146-148: the AfterFunc hook runs once ctx is done, unless stopped.
HookFire(c) ==
    /\ chan[c].hook = "armed"
    /\ ctxDone[c]
    /\ IF CancelHookCloses = "channel"
       THEN /\ chan' = [chan EXCEPT ![c].closed = TRUE, ![c].hook = "fired"]
            /\ tr' = tr
       ELSE /\ chan' = [chan EXCEPT ![c].hook = "fired"]
            /\ tr' = [tr EXCEPT ![chan[c].t].closed = TRUE]
    /\ UNCHANGED <<sshClient, sfKey, sfCall, res, nextT, pc, ctxDone, client,
                   openLog, invals, closeLocal, ret, faults, notSSH>>

\* channelConn.Close (client.go 277-282) acts on the hook and on the channel
\* and has no access to the transport the channel runs on, whether the
\* channel is still open or not.
CloseOfClosedClosesTransport(ch) == ch.closed
CloseClosesTransport(ch) == FALSE

\* channelConn.Close (client.go 277-282): stop the hook, close the channel.
\* The caller may call it again on a channel it, or the hook, has closed;
\* closes counts the calls.
ChannelClose(c) ==
    /\ chan[c].t # NoTransport
    /\ faults < MaxFaults
    /\ faults' = faults + 1
    /\ chan' = [chan EXCEPT ![c].closed = TRUE,
                            ![c].hook = IF @ = "armed" THEN "stopped" ELSE @,
                            ![c].closes = @ + 1]
    /\ tr' = IF CloseClosesTransport(chan[c])
             THEN [tr EXCEPT ![chan[c].t].closed = TRUE] ELSE tr
    /\ UNCHANGED <<sshClient, sfKey, sfCall, res, nextT, pc, ctxDone, client,
                   openLog, invals, closeLocal, ret, notSSH>>

\* The connection under an established transport breaks.  The Client learns
\* of it only through a channel open, so the break is taken when some call is
\* about to open a channel on t.
TransportDies(t) ==
    /\ Usable(t)
    /\ \E c \in Callers : pc[c] = "open" /\ client[c] = t
    /\ faults < MaxFaults
    /\ faults' = faults + 1
    /\ tr' = [tr EXCEPT ![t].dead = TRUE]
    /\ UNCHANGED <<sshClient, sfKey, sfCall, res, nextT, pc, ctxDone, client,
                   openLog, invals, closeLocal, ret, chan, notSSH>>

SSHNext ==
    \/ \E c \in Callers, n \in Networks : Start(c, n)
    \/ \E c \in Callers : GtRead(c)
    \/ \E c \in Callers : GtDoChan(c)
    \/ \E c \in Callers : GtWaitCtx(c)
    \/ \E c \in Callers : GtWaitRes(c)
    \/ \E k \in Callers : SfCheck(k)
    \/ \E k \in Callers : SfHandshake(k)
    \/ \E k \in Callers : SfDeliver(k)
    \/ \E c \in Callers : Open(c)
    \/ \E c \in Callers : CloseClear(c)
    \/ \E c \in Callers : CloseClose(c)
    \/ \E c \in Callers : Cancel(c)
    \/ \E c \in Callers : HookFire(c)
    \/ \E c \in Callers : ChannelClose(c)
    \/ \E t \in Transports : TransportDies(t)

(***************************************************************************)
(* Claims about the SSH Client, checked under SpecSSH.                     *)
(***************************************************************************)
Handshakes == nextT - 1
InHandshake == {t \in Transports : tr[t].state = "hs"}
Returned(c) == pc[c] = "done" /\ ret[c].err # UnsupportedNetworkErr

\* Nothing has gone wrong so far: no ctx cancelled, no handshake failed, no
\* transport broken or closed, no channel open refused.
FaultFree ==
    /\ \A c \in Callers : ~ctxDone[c]
    /\ \A t \in Transports : tr[t].state \in {"none", "hs", "up"} /\ ~tr[t].dead /\ ~tr[t].closed
    /\ \A c \in Callers : \A i \in 1..Len(openLog[c]) : openLog[c][i] = NoErr

\* C1: for any number of DialContext calls on a Client that starts with an
\* empty cache, concurrent or sequential, as long as the handshake succeeds and
\* nothing fails, newTransport runs exactly once and every call that has
\* returned opened, in one attempt, its own channel on that one transport.
C1_SingleHandshake ==
    FaultFree =>
        /\ Handshakes <= 1
        /\ \A c \in Callers : Returned(c) =>
              /\ ret[c].status = "ok"
              /\ Handshakes = 1
              /\ chan[c].t = 1 /\ tr[1].state = "up"
              /\ Len(openLog[c]) = 1 /\ invals[c] = 0

C1_Witness ==
    /\ FaultFree
    /\ Handshakes = 1
    /\ \A c \in Callers : Returned(c) /\ ret[c].status = "ok" /\ chan[c].t = 1

\* C2: at every moment, whatever the interleaving of calls, cancellations and
\* invalidations, at most one newTransport execution is in progress.
C2_AtMostOneConnect == Cardinality(InHandshake) <= 1

C2_Witness ==
    /\ Cardinality(InHandshake) = 1
    /\ \E c \in Callers : invals[c] > 0
    /\ \E c \in Callers : ctxDone[c]

\* C3: a caller whose ctx is cancelled while it waits in getTransport, the
\* starter of the connect attempt included, returns at once with its context
\* error (DialContext hands back ctx.Err() in the first attempt, the first
\* open's error in the retry) and leaves the attempt untouched; the attempt
\* can still succeed, is never aborted by a cancellation, and when it
\* succeeds the transport is cached and every waiter still waiting gets it.
C3_AttemptCanSucceed ==
    \A k \in Callers : sfCall[k].pc = "hs" => "ok" \in HandshakeOutcomes(sfCall[k].ctx)

C3_Step ==
    /\ \A c \in Callers :
         (pc[c] = "gt_wait" /\ pc'[c] = "done" /\ ~res[c].ready) =>
            /\ ctxDone[c]
            /\ ret'[c] = RetErr(IF invals[c] = 0 THEN CtxErr ELSE openLog[c][1], FALSE)
            /\ sfCall' = sfCall /\ sfKey' = sfKey /\ tr' = tr /\ sshClient' = sshClient
    /\ \A k \in Callers :
         (sfCall[k].pc = "hs" /\ sfCall'[k].pc # "hs") =>
            /\ tr'[sfCall[k].t].state \in {"up", "fail"}
            /\ tr'[sfCall[k].t].state = "up" =>
                  sshClient' = sfCall[k].t /\ sfCall'[k].val = sfCall[k].t
    /\ \A k \in Callers :
         (sfCall[k].pc = "deliver" /\ sfCall'[k].pc = "idle") =>
            \A c \in sfCall[k].chans : pc[c] = "gt_wait" =>
               res'[c] = [ready |-> TRUE, val |-> sfCall[k].val, err |-> sfCall[k].err]

C3_CancelledWaiterLeavesConnectRunning == []C3_AttemptCanSucceed /\ [][C3_Step]_vars

\* The starter gave up and returned ctx.Err(); its attempt went on, succeeded
\* and is cached, and another caller is still waiting for the result.
C3_Witness ==
    \E c \in Callers, d \in Callers :
        /\ c # d
        /\ sfKey = c /\ sfCall[c].pc = "deliver"
        /\ pc[c] = "done" /\ ret[c] = RetErr(CtxErr, FALSE)
        /\ sfCall[c].val # NoTransport /\ sshClient = sfCall[c].val
        /\ d \in sfCall[c].chans /\ pc[d] = "gt_wait"

\* C4: a cached transport has completed its handshake (key exchange and user
\* authentication): one that failed or is still handshaking is never cached.
C4_CachedTransportEstablished ==
    sshClient # NoTransport => tr[sshClient].state = "up"

C4_Witness ==
    /\ sshClient # NoTransport
    /\ \E t \in Transports : tr[t].state = "fail"

\* C5: a channel open that fails with anything but an OpenChannelError makes
\* DialContext run Close (which clears the cache and closes what it took),
\* get a transport again and retry the open once: a call makes at most two
\* opens and one invalidation, the second open only after the invalidation.
C5_Bounded ==
    \A c \in Callers :
        /\ Len(openLog[c]) <= 2
        /\ invals[c] <= 1
        /\ Len(openLog[c]) = 2 =>
              /\ invals[c] = 1
              /\ openLog[c][1].kind \notin {"nil", "openchannel"}
        /\ (Len(openLog[c]) >= 1 /\ openLog[c][1].kind \notin {"nil", "openchannel"}) =>
              IF pc[c] = "close_clear" THEN invals[c] = 0 ELSE invals[c] = 1
        /\ (pc[c] = "done" /\ Len(openLog[c]) = 2) => ret[c].status \in {"ok", "err"}

C5_Step ==
    \A c \in Callers :
        /\ invals'[c] # invals[c] =>
              /\ pc[c] = "close_clear"
              /\ sshClient' = NoTransport /\ closeLocal'[c] = sshClient
        /\ (pc[c] = "close_close" /\ pc'[c] # "close_close") =>
              /\ closeLocal[c] # NoTransport => tr'[closeLocal[c]].closed
              /\ pc'[c] = "gt_read"

C5_RetryOnce == []C5_Bounded /\ [][C5_Step]_vars

C5_Witness ==
    \E c \in Callers :
        /\ pc[c] = "done" /\ ret[c].status = "err"
        /\ Len(openLog[c]) = 2 /\ invals[c] = 1

\* C6 as stated: whenever the first open failed at transport level and the
\* call fails in the end, the error returned is the first open's error.
C6_OriginalErrorAlways ==
    \A c \in Callers :
        (pc[c] = "done" /\ invals[c] = 1 /\ ret[c].status = "err") =>
            ret[c].err = openLog[c][1]

\* C6, amended: when no fresh transport could be obtained, DialContext returns
\* the first open's error as it was; when the retried open failed, it returns
\* the retried open's error, wrapped.
C6_ErrorOfFailedRetry ==
    \A c \in Callers :
        (pc[c] = "done" /\ invals[c] = 1 /\ ret[c].status = "err") =>
            IF Len(openLog[c]) = 1
            THEN ret[c] = RetErr(openLog[c][1], FALSE)
            ELSE ret[c] = RetErr(openLog[c][2], TRUE)

C6_Witness ==
    \E c \in Callers, t \in Transports :
        /\ pc[c] = "done" /\ invals[c] = 1 /\ Len(openLog[c]) = 1
        /\ tr[t].state = "fail"
        /\ ret[c] = RetErr(openLog[c][1], FALSE)
        /\ openLog[c][1].kind = "transport"

\* C7: an open refused with an OpenChannelError ends the call with that error,
\* wrapped, without closing or clearing anything and without a retry; a call
\* that then finds the transport in the cache takes it with no new handshake.
C7_Step ==
    /\ \A c \in Callers :
         (Len(openLog'[c]) = Len(openLog[c]) + 1
            /\ openLog'[c][Len(openLog'[c])].kind = "openchannel") =>
               /\ pc'[c] = "done"
               /\ ret'[c] = RetErr(openLog'[c][Len(openLog'[c])], TRUE)
               /\ sshClient' = sshClient /\ tr' = tr /\ invals' = invals
    /\ \A c \in Callers :
         (pc[c] \in {"idle", "gt_read"} /\ pc'[c] # pc[c] /\ sshClient # NoTransport
            /\ ret'[c].err # UnsupportedNetworkErr) =>
               /\ pc'[c] = "open" /\ client'[c] = sshClient
               /\ nextT' = nextT /\ sfCall' = sfCall

C7_RefusedOpenKeepsTransport == [][C7_Step]_vars

C7_Witness ==
    \E c \in Callers, d \in Callers :
        /\ c # d /\ Handshakes = 1
        /\ pc[c] = "done" /\ ret[c].err.kind = "openchannel" /\ invals[c] = 0
        /\ sshClient = ret[c].err.t /\ Usable(sshClient)
        /\ pc[d] = "done" /\ chan[d].t = sshClient /\ ~chan[d].closed

\* C8: cancelling the ctx of a call that returned a channel closes that
\* channel and nothing else: the cache and every transport are untouched and
\* the channels of other calls stay as they are.
C8_Step ==
    /\ ctxDone' # ctxDone => (sshClient' = sshClient /\ tr' = tr /\ chan' = chan)
    /\ \A c \in Callers :
         (chan[c].hook = "armed" /\ chan'[c].hook = "fired") =>
            /\ ctxDone[c]
            /\ chan'[c].closed
            /\ sshClient' = sshClient /\ tr' = tr
            /\ \A d \in Callers : d # c => chan'[d] = chan[d]

C8_CancelClosesOnlyOwnChannel == [][C8_Step]_vars

C8_Witness ==
    \E c \in Callers, d \in Callers :
        /\ c # d
        /\ chan[c].hook = "fired" /\ chan[c].closed
        /\ chan[d].t = chan[c].t /\ ~chan[d].closed /\ chan[d].hook = "armed"
        /\ sshClient = chan[c].t /\ Usable(sshClient)


(***************************************************************************)
(* Part II.  internal/proxy: the inbound connection handlers               *)
(*   socks5_server.go handleConn (137-181), http_proxy.go handleConnect    *)
(*   (67-99), with internal/socks5 (server.go, reply.go) and               *)
(*   CopyBidirectional (copy.go).  The Dialer is an interface: its         *)
(*   DialContext either yields an upstream connection or fails.            *)
(***************************************************************************)

\* SOCKS5 protocol values used by the handler.
CmdConnect == 1
ATYPIPv4 == 1
ATYPDomain == 3
ATYPIPv6 == 4
RepSuccess == 0
RepConnectionRefused == 5
RepCommandNotSupported == 7
MethodNone == 0
MethodNoAcceptable == 255
MethodUsernamePassword == 2
UserPassStatusSuccess == 0
UserPassStatusFailure == 1

\* The commands (CONNECT, BIND) and address types a parsed request carries.
Cmds == {CmdConnect, 2}
Atyps == {ATYPIPv4, ATYPDomain, ATYPIPv6}
\* up.LocalAddr().String() of the dialled upstream: an IPv4 or IPv6
\* host:port, a named host:port, or a string ParseAddress rejects.
LocalAddrs == {"ip4", "ip6", "name", "bad"}

\* What the handler put on the inbound socket, frame by frame.  A write that
\* returned an error left the frame incomplete (possibly nothing of it).
NegotiationReply(method, ok) ==
    [typ |-> "method", code |-> method, atyp |-> 0, complete |-> ok]
\* txsocks5.NewReply(rep, atyp, bndaddr, bndport) as reply.go 44, 52, 54 call
\* it: the constructor sets the version 0x05 and the reserved byte 0x00.
NewReply(rep, atyp, addr, port, ok) ==
    [typ |-> "reply", code |-> rep, atyp |-> atyp, complete |-> ok,
     ver |-> 5, rsv |-> 0, addr |-> addr, port |-> port]
HTTPResponse(code, ok) ==
    [typ |-> "http", code |-> code, atyp |-> 0, complete |-> ok]
\* The upstream payload io.Copy wrote to the inbound socket.
Payload == [typ |-> "payload", code |-> 0, atyp |-> 0, complete |-> TRUE]

\* reply.go 50-55
IPv4zero == <<0, 0, 0, 0>>
IPv6zero == [n \in 1..16 |-> 0]
PortZero == <<0, 0>>
newZeroAddrReplyIPv4(rep, atyp, ok) == NewReply(rep, ATYPIPv4, IPv4zero, PortZero, ok)
newZeroAddrReply(rep, atyp, ok) ==
    IF atyp = ATYPIPv6 THEN NewReply(rep, ATYPIPv6, IPv6zero, PortZero, ok)
                       ELSE NewReply(rep, ATYPIPv4, IPv4zero, PortZero, ok)

\* reply.go 24-26: the result of WriteTo is dropped.
WriteCommandNotSupportedReply(out, atyp, ok) ==
    Append(out, newZeroAddrReply(RepCommandNotSupported, atyp, ok))

\* reply.go 30-32: the result of WriteTo is dropped.
WriteConnectionRefusedReplyNothing(out, atyp, ok) == out
WriteConnectionRefusedReply(out, atyp, ok) ==
    Append(out, newZeroAddrReply(RepConnectionRefused, atyp, ok))

\* reply.go 37-40: txsocks5.ParseAddress(localAddr.String())
ParseAddressFails(local) == local = "bad"
ParseAddressAtyp(local) ==
    CASE local = "ip4" -> ATYPIPv4
      [] local = "ip6" -> ATYPIPv6
      [] OTHER -> ATYPDomain
\* The address and port bytes ParseAddress returns (reply.go 41-43: without
\* the length byte of a domain name, which NewReply puts back).
ParseAddressAddr(local) ==
    CASE local = "ip4" -> <<127, 0, 0, 1>>
      [] local = "ip6" -> [n \in 1..16 |-> IF n = 16 THEN 1 ELSE 0]
      [] OTHER -> <<117, 112>>
ParseAddressPort(local) == <<48, 57>>

\* reply.go 36-48: what WriteSuccessReply leaves on the socket ...
WriteSuccessReply(out, local, ok) ==
    IF ParseAddressFails(local) THEN out
    ELSE Append(out, NewReply(RepSuccess, ParseAddressAtyp(local),
                              ParseAddressAddr(local), ParseAddressPort(local), ok))
\* ... and whether it returns an error (socks5_server.go 168-170).
WriteSuccessReplyErrIgnored(local, ok) == FALSE
WriteSuccessReplyErr(local, ok) == ParseAddressFails(local) \/ ~ok

\* No inbound connection has been accepted yet.
NoConn == [kind |-> "none", pc |-> "idle", out |-> <<>>, closed |-> FALSE,
           up |-> "none", bridged |-> FALSE, err |-> "nil", atyp |-> 0,
           local |-> "none", timeout |-> 0, deadline |-> FALSE,
           hook |-> "none"]

PxInit == inb = [i \in Conns |-> NoConn]

\* The handler returns with `err`: the deferred c.Close() and up.Close() run
\* (socks5_server.go 138, 166).
HandleConnReturnsLeftOpen(r, err) ==
    [r EXCEPT !.pc = "done", !.err = err,
              !.up = IF r.up = "open" THEN "closed" ELSE r.up]
HandleConnReturns(r, err) ==
    [r EXCEPT !.pc = "done", !.err = err, !.closed = TRUE,
              !.up = IF r.up = "open" THEN "closed" ELSE r.up]

(***************************************************************************)
(* SOCKS5Server.handleConn (socks5_server.go 137-181)                      *)
(***************************************************************************)
\* socks5_server.go 172-174: c.SetDeadline(time.Time{}) under the condition
\* the deadline was set with.
DeadlineKept(r) == r.deadline
DeadlineCleared(r) == IF r.timeout > 0 THEN FALSE ELSE r.deadline

\* socks5_server.go 127-128: the accept loop hands the connection to handleConn.
\* socks5_server.go 142-144: with a negotiation timeout, SetDeadline on the
\* inbound socket before anything is read.
HandleConnStart(i) ==
    /\ inb[i].kind = "none"
    /\ \E timeout \in NegotiationTimeouts :
         inb' = [inb EXCEPT ![i] =
                   [NoConn EXCEPT !.kind = "socks5", !.pc = "negotiate",
                                  !.timeout = timeout, !.deadline = (timeout > 0)]]
    /\ UNCHANGED notPx

\* socks5_server.go 146-148 with server.go 86-123 (no-auth branch): read the
\* greeting, require method 0x00, answer it.
ServerNegotiateNoAuth(i) ==
    /\ inb[i].kind = "socks5" /\ inb[i].pc = "negotiate"
    /\ LET r == inb[i] IN
       \* server.go 87-90: the greeting could not be read
       \/ inb' = [inb EXCEPT ![i] = HandleConnReturns(r, "negotiation")]
       \* server.go 115-118: 0x00 not offered; the result of writing 0xFF is dropped
       \/ \E w \in BOOLEAN :
            inb' = [inb EXCEPT ![i] =
              HandleConnReturns(
                [r EXCEPT !.out = Append(@, NegotiationReply(MethodNoAcceptable, w))],
                "negotiation")]
       \* server.go 119-121: the method reply could not be written
       \/ inb' = [inb EXCEPT ![i] =
              HandleConnReturns(
                [r EXCEPT !.out = Append(@, NegotiationReply(MethodNone, FALSE))],
                "negotiation")]
       \* server.go 122
       \/ inb' = [inb EXCEPT ![i] =
              [r EXCEPT !.out = Append(@, NegotiationReply(MethodNone, TRUE)),
                        !.pc = "request"]]
    /\ UNCHANGED notPx

\* socks5_server.go 150-157 with server.go 132-138: read the request; any
\* command but CONNECT is answered with "command not supported".
ServerReadRequest(i) ==
    /\ inb[i].kind = "socks5" /\ inb[i].pc = "request"
    /\ LET r == inb[i] IN
       \/ inb' = [inb EXCEPT ![i] = HandleConnReturns(r, "request")]
       \/ \E cmd \in Cmds, atyp \in Atyps, w \in BOOLEAN :
            inb' = [inb EXCEPT ![i] =
              IF cmd # CmdConnect
              THEN HandleConnReturns(
                     [r EXCEPT !.atyp = atyp,
                               !.out = WriteCommandNotSupportedReply(@, atyp, w)],
                     "command")
              ELSE [r EXCEPT !.atyp = atyp, !.pc = "dial"]]
    /\ UNCHANGED notPx

\* socks5_server.go 159-166: dial the destination; a failure is answered with
\* "connection refused".
HandleConnDial(i) ==
    /\ inb[i].kind = "socks5" /\ inb[i].pc = "dial"
    /\ LET r == inb[i] IN
       \/ \E w \in BOOLEAN :
            inb' = [inb EXCEPT ![i] =
              HandleConnReturns(
                [r EXCEPT !.out = WriteConnectionRefusedReply(@, r.atyp, w)],
                "dial")]
       \/ \E local \in LocalAddrs :
            inb' = [inb EXCEPT ![i] =
              [r EXCEPT !.up = "open", !.local = local, !.pc = "reply"]]
    /\ UNCHANGED notPx

\* socks5_server.go 168-177: write the success reply; on error return, else
\* clear the deadline and enter CopyBidirectional.
HandleConnReply(i) ==
    /\ inb[i].kind = "socks5" /\ inb[i].pc = "reply"
    /\ \E w \in BOOLEAN :
         LET r == [inb[i] EXCEPT !.out = WriteSuccessReply(@, inb[i].local, w)] IN
         inb' = [inb EXCEPT ![i] =
           IF WriteSuccessReplyErr(inb[i].local, w)
           THEN HandleConnReturns(r, "success_reply")
           ELSE [r EXCEPT !.pc = "bridge", !.bridged = TRUE,
                          !.deadline = DeadlineCleared(r)]]
    /\ UNCHANGED notPx

(***************************************************************************)
(* HTTPProxyServer.handle / handleConnect (http_proxy.go 59-99)            *)
(***************************************************************************)
\* http_proxy.go 59-65: CONNECT goes to handleConnect, anything else to the
\* reverse proxy.
Handle(i) ==
    /\ inb[i].kind = "none"
    /\ \E method \in {"CONNECT", "GET"} :
         inb' = [inb EXCEPT ![i] =
           [NoConn EXCEPT !.kind = "http",
                          !.pc = IF method = "CONNECT" THEN "hijack" ELSE "served"]]
    /\ UNCHANGED notPx

\* http_proxy.go 68-78: take the connection over from the HTTP server; when
\* that is not possible answer 500 through the ResponseWriter and return (the
\* connection stays with the HTTP server).
HandleConnectHijack(i) ==
    /\ inb[i].kind = "http" /\ inb[i].pc = "hijack"
    /\ LET r == inb[i] IN
       \/ \E w \in BOOLEAN :
            inb' = [inb EXCEPT ![i] =
              [r EXCEPT !.out = Append(@, HTTPResponse(500, w)),
                        !.pc = "done", !.err = "hijack"]]
       \/ inb' = [inb EXCEPT ![i] = [r EXCEPT !.pc = "dial"]]
    /\ UNCHANGED notPx

\* http_proxy.go 101-104, 89-90: writeError and the flush put an HTTP error
\* response on the hijacked connection.
writeErrorNothing(out, code, ok) == out
writeError(out, code, ok) == Append(out, HTTPResponse(code, ok))

\* http_proxy.go 87-93: dial the target; a failure is answered with 502 (the
\* results of the write and the flush are dropped) and the client connection
\* is closed.
HandleConnectDial(i) ==
    /\ inb[i].kind = "http" /\ inb[i].pc = "dial"
    /\ LET r == inb[i] IN
       \/ \E w \in BOOLEAN :
            inb' = [inb EXCEPT ![i] =
              [r EXCEPT !.out = writeError(@, 502, w),
                        !.pc = "done", !.err = "dial", !.closed = TRUE]]
       \/ inb' = [inb EXCEPT ![i] = [r EXCEPT !.up = "open", !.pc = "reply"]]
    /\ UNCHANGED notPx

\* http_proxy.go 95-98: write "200 Connection Established" (the results of
\* the write and the flush are dropped) and enter CopyBidirectional.
HandleConnectReply(i) ==
    /\ inb[i].kind = "http" /\ inb[i].pc = "reply"
    /\ \E w \in BOOLEAN :
         inb' = [inb EXCEPT ![i] =
           [inb[i] EXCEPT !.out = Append(@, HTTPResponse(200, w)),
                          !.pc = "bridge", !.bridged = TRUE]]
    /\ UNCHANGED notPx

(***************************************************************************)
(* CopyBidirectional (copy.go 23-42)                                       *)
(***************************************************************************)
\* copy.go 34-36, 47: io.Copy moves upstream bytes to the inbound socket; the
\* payload that follows the handler's last frame is one segment of `out`.
CopyToInbound(i) ==
    /\ inb[i].pc = "bridge"
    /\ IF inb[i].out = <<>> THEN TRUE ELSE inb[i].out[Len(inb[i].out)] # Payload
    /\ inb' = [inb EXCEPT ![i].out = Append(@, Payload)]
    /\ UNCHANGED notPx

\* copy.go 38-41: both copies are over and Wait returns, which cancels gctx;
\* the AfterFunc hook of lines 25-28 then runs in a goroutine of its own.
\* Each copyClose has closed its destination or only half-closed it (copy.go
\* 55-62), and a hook run on an earlier cancellation has closed both.
\* handleConn and tproxy's handle return into their deferred Close calls;
\* handleConnect (http_proxy.go 98) has none.
CopyBidirectionalReturns(i) ==
    /\ inb[i].pc = "bridge"
    /\ \E e \in {"nil", "proxy"}, lc \in BOOLEAN, rc \in BOOLEAN :
         inb' = [inb EXCEPT ![i] =
           IF inb[i].kind = "http"
           THEN [inb[i] EXCEPT !.pc = "done", !.err = e, !.closed = lc,
                               !.up = IF rc THEN "closed" ELSE "open",
                               !.hook = "pending"]
           ELSE [HandleConnReturns(inb[i], e) EXCEPT !.hook = "pending"]]
    /\ UNCHANGED notPx

\* copy.go 25-28: the hook closes left and right.
ClosedByHookInboundOnly(r) == [r EXCEPT !.closed = TRUE, !.hook = "ran"]
ClosedByHook(r) == [r EXCEPT !.closed = TRUE, !.up = "closed", !.hook = "ran"]

AfterFuncHook(i) ==
    /\ inb[i].hook = "pending"
    /\ inb' = [inb EXCEPT ![i] = ClosedByHook(inb[i])]
    /\ UNCHANGED notPx

(***************************************************************************)
(* tproxy Server.handle (tproxy/server.go 91-111)                          *)
(***************************************************************************)
\* server.go 82, 92-98: the accept loop hands the connection to handle, which
\* asks for its original destination.
TproxyHandle(i) ==
    /\ inb[i].kind = "none"
    /\ \E ok \in BOOLEAN :
         LET r == [NoConn EXCEPT !.kind = "tproxy", !.pc = "dial"] IN
         inb' = [inb EXCEPT ![i] =
                   IF ok THEN r ELSE HandleConnReturns(r, "origdst")]
    /\ UNCHANGED notPx

\* server.go 100-109: dial the original destination and enter
\* CopyBidirectional; nothing is written to the inbound socket first.
TproxyDial(i) ==
    /\ inb[i].kind = "tproxy" /\ inb[i].pc = "dial"
    /\ LET r == inb[i] IN
       \/ inb' = [inb EXCEPT ![i] = HandleConnReturns(r, "dial")]
       \/ inb' = [inb EXCEPT ![i] =
                   [r EXCEPT !.up = "open", !.pc = "bridge", !.bridged = TRUE]]
    /\ UNCHANGED notPx

PxNext ==
    \E i \in Conns :
        \/ HandleConnStart(i)
        \/ ServerNegotiateNoAuth(i)
        \/ ServerReadRequest(i)
        \/ HandleConnDial(i)
        \/ HandleConnReply(i)
        \/ Handle(i)
        \/ HandleConnectHijack(i)
        \/ HandleConnectDial(i)
        \/ HandleConnectReply(i)
        \/ CopyToInbound(i)
        \/ CopyBidirectionalReturns(i)
        \/ AfterFuncHook(i)
        \/ TproxyHandle(i)
        \/ TproxyDial(i)

\* The hook of a cancelled context runs.
PxFairness == \A i \in Conns : WF_vars(AfterFuncHook(i))


(***************************************************************************)
(* Claims about the inbound handlers.                                      *)
(***************************************************************************)
\* The connection was handed to handleConn or handleConnect.
Tunnelling(i) == inb[i].kind = "socks5" \/ (inb[i].kind = "http" /\ inb[i].pc # "served")
HandlerReturned(i) == Tunnelling(i) /\ inb[i].pc = "done"
IsErrorReply(f) ==
    \/ f.typ = "reply" /\ f.code # RepSuccess
    \/ f.typ = "http" /\ f.code # 200
IsSuccessReply(f) ==
    \/ f.typ = "reply" /\ f.code = RepSuccess
    \/ f.typ = "http" /\ f.code = 200
\* The handler issued such a reply on the inbound socket.
ErrorReplied(i) == \E n \in 1..Len(inb[i].out) : IsErrorReply(inb[i].out[n])
SuccessReplied(i) == \E n \in 1..Len(inb[i].out) : IsSuccessReply(inb[i].out[n])
\* The frames the handler itself wrote (everything but relayed payload).
HandlerFrames(out) == SelectSeq(out, LAMBDA f : f.typ # "payload")

\* C9 (as stated): every connection a handler is done with either got an
\* error reply and was not bridged, or got a success reply and was bridged:
\* never both and never neither.
C9_ExactlyOneOutcome ==
    \A i \in Conns :
        HandlerReturned(i) =>
            \/ ErrorReplied(i) /\ ~SuccessReplied(i) /\ ~inb[i].bridged
            \/ SuccessReplied(i) /\ ~ErrorReplied(i) /\ inb[i].bridged

\* C9 (amended): never both outcomes; a bridged connection was issued the
\* success reply immediately before (SOCKS5: written in full) and no error
\* reply; a connection that was issued an error reply is never bridged and its
\* handler is done with it; an unsupported command and a failed dial always
\* issue an error reply and the handler closes the connection; a connection
\* ends without any reply only when the SOCKS5 negotiation or the request
\* could not be read or answered, and ends unbridged after a success reply
\* only when that reply could not be written.
C9_ReplyMatchesOutcome ==
    \A i \in Conns :
        LET r == inb[i]
            hf == HandlerFrames(r.out) IN
        /\ ~(ErrorReplied(i) /\ r.bridged)
        /\ (r.bridged /\ r.kind \in {"socks5", "http"}) =>
              /\ hf # <<>> /\ IsSuccessReply(hf[Len(hf)])
              /\ r.kind = "socks5" => hf[Len(hf)].complete
        /\ ErrorReplied(i) =>
              /\ r.pc = "done" /\ ~SuccessReplied(i)
              /\ r.err \in {"command", "dial", "hijack"}
        /\ (HandlerReturned(i) /\ r.err \in {"command", "dial"}) =>
              ErrorReplied(i) /\ r.closed /\ ~r.bridged
        /\ (HandlerReturned(i) /\ r.err = "hijack") => ErrorReplied(i) /\ ~r.bridged
        /\ (HandlerReturned(i) /\ ~r.bridged /\ ~ErrorReplied(i)) =>
              /\ r.kind = "socks5" /\ r.closed
              /\ r.err \in {"negotiation", "request", "success_reply"}
              /\ SuccessReplied(i) => r.err = "success_reply"

\* C9 witness: one connection ended with a refusal reply, closed and never
\* bridged, while another was bridged after its success reply and is done.
C9_Witness ==
    \E i, j \in Conns :
        /\ HandlerReturned(i) /\ inb[i].err = "dial" /\ ErrorReplied(i)
        /\ inb[i].closed /\ ~inb[i].bridged
        /\ HandlerReturned(j) /\ inb[j].bridged /\ SuccessReplied(j)

\* C10: when handleConn is in (or past) CopyBidirectional, the frames it wrote
\* are the method reply and one success reply, both written in full ...
C10_ReplyBeforeBridge ==
    \A i \in Conns :
        (inb[i].kind = "socks5" /\ inb[i].bridged) =>
            LET hf == HandlerFrames(inb[i].out) IN
            /\ Len(hf) = 2
            /\ hf[1] = NegotiationReply(MethodNone, TRUE)
            /\ hf[2].typ = "reply" /\ hf[2].code = RepSuccess /\ hf[2].complete
            /\ \A n \in 1..Len(inb[i].out) :
                   inb[i].out[n].typ = "payload" => n > 2
\* ... and from then on only relayed payload is added to the inbound socket.
C10_Step ==
    \A i \in Conns :
        (inb[i].kind = "socks5" /\ inb[i].bridged) =>
            /\ inb'[i].bridged
            /\ HandlerFrames(inb'[i].out) = HandlerFrames(inb[i].out)
            /\ \/ inb'[i].out = inb[i].out
               \/ inb'[i].out = Append(inb[i].out, Payload)
C10_ReplyThenTunnelOnly == []C10_ReplyBeforeBridge /\ [][C10_Step]_vars

\* C10 witness: a SOCKS5 connection went through CopyBidirectional, which
\* relayed payload after the success reply, and its handler has returned.
C10_Witness ==
    \E i \in Conns :
        /\ inb[i].kind = "socks5" /\ inb[i].bridged /\ inb[i].pc = "done"
        /\ Len(inb[i].out) = 3 /\ inb[i].out[3] = Payload

(***************************************************************************)
(* Part III.  The outbound dialers: HTTPProxyDialer.DialContext,           *)
(*   SOCKS5ProxyDialer.DialContext (internal/dialer) and the SSH           *)
(*   Client.newTransport (internal/ssh/client.go 215-265), each followed   *)
(*   through the life of the connection it opens towards the proxy or the  *)
(*   SSH server.                                                           *)
(***************************************************************************)
\* ClientConfig (client.go 23-37) as far as AuthMethods reads it.
ClientConfigs == [username : BOOLEAN, password : BOOLEAN, signers : BOOLEAN]
\* client.go 41-57: AuthMethods fails without a username or without any
\* credential.
AuthMethodsFails(cfg) == ~cfg.username \/ (~cfg.signers /\ ~cfg.password)
\* client.go 86-101: NewClient refuses a config whose AuthMethods fails, so a
\* Client only ever holds one of these.
NewClientConfigs == {cfg \in ClientConfigs : ~AuthMethodsFails(cfg)}

\* http_proxy dialer line 144: resp.StatusCode/100 != 2
StatusFailedFrom500(status) == status >= 500
StatusFailed(status) == status \div 100 # 2
\* The status lines a proxy answers CONNECT with.
Statuses == {101, 200, 204, 302, 407, 502}

\* timeout is cfg.NegotiationTimeout, ctxDeadline whether ctx.Deadline()
\* reports one, deadline what SetDeadline last left on the connection, silent
\* whether the proxy accepts the connection and then never answers, status
\* the resp.StatusCode the HTTP dialer read.
NoDial == [kind |-> "none", pc |-> "idle", conn |-> "none", ret |-> "none",
           err |-> "nil", ctxDone |-> FALSE, hook |-> "none",
           timeout |-> 0, ctxDeadline |-> FALSE, deadline |-> "none",
           silent |-> FALSE, status |-> 0]

DlInit == dial = [d \in Dials |-> NoDial]

\* What the dialer does with the connection on a failed exchange:
\* `_ = c.Close()` before `return nil, err`.
FailedConnLeftOpen == "open"
FailedConn == "closed"

\* return nil, err after closing the connection (part_007 112, 133, 140, 145;
\* socks5_proxy.go 79; client.go 256); a deferred stop() detaches the hook.
DialFails(r, err) ==
    [r EXCEPT !.pc = "done", !.ret = "err", !.err = err, !.conn = FailedConn,
              !.hook = IF @ = "armed" THEN "stopped" ELSE @]
\* return c, nil; a deferred stop() detaches the hook.
DialReturns(r) ==
    [r EXCEPT !.pc = "done", !.ret = "conn",
              !.hook = IF @ = "armed" THEN "stopped" ELSE @]
\* return nil, err before any connection exists.
DialRefused(r, err) == [r EXCEPT !.pc = "done", !.ret = "err", !.err = err]

\* HTTPProxyDialer.DialContext 95-116: network check, direct dial to the
\* proxy, and for an https proxy the TLS handshake comes next.
HTTPDialConnect(d) ==
    /\ dial[d].kind = "none"
    /\ \E network \in Networks, https \in BOOLEAN, ok \in BOOLEAN,
          timeout \in NegotiationTimeouts, ctxDeadline \in BOOLEAN :
         LET r == [NoDial EXCEPT !.kind = "http", !.timeout = timeout,
                                 !.ctxDeadline = ctxDeadline] IN
         dial' = [dial EXCEPT ![d] =
           IF ~HasPrefixTcp(network) THEN DialRefused(r, "unsupported")
           ELSE IF ~ok THEN DialRefused(r, "dial")
           \* 108-110: the TLS handshake runs under the negotiation deadline
           ELSE [r EXCEPT !.conn = "open", !.pc = IF https THEN "tls" ELSE "write",
                          !.deadline = IF https /\ timeout > 0 THEN "negotiation" ELSE @]]
    /\ UNCHANGED notDl

\* 111-115: tlsConn.HandshakeContext(ctx); it fails when ctx is cancelled.
HTTPDialTLS(d) ==
    /\ dial[d].kind = "http" /\ dial[d].pc = "tls"
    /\ \E ok \in (IF dial[d].ctxDone THEN {FALSE} ELSE BOOLEAN) :
         dial' = [dial EXCEPT ![d] =
           IF ok THEN [dial[d] EXCEPT !.pc = "write"]
           ELSE DialFails(dial[d], "tls")]
    /\ UNCHANGED notDl

\* 128-135: the negotiation deadline is set, then req.Write(c)
HTTPDialWrite(d) ==
    /\ dial[d].kind = "http" /\ dial[d].pc = "write"
    /\ \E ok \in BOOLEAN :
         LET r == [dial[d] EXCEPT !.deadline =
                     IF dial[d].timeout > 0 THEN "negotiation" ELSE @] IN
         dial' = [dial EXCEPT ![d] =
           IF ok THEN [r EXCEPT !.pc = "read"]
           ELSE DialFails(r, "write")]
    /\ UNCHANGED notDl

\* part_007 149-151, socks5_proxy.go 83-85: SetDeadline(time.Time{}) under
\* the condition NegotiationTimeout > 0.
ClearDeadline(r) ==
    [r EXCEPT !.deadline = IF r.timeout > 0 THEN "none" ELSE @]

\* 137-152: http.ReadResponse, the status check, the deadline cleared.
HTTPDialRead(d) ==
    /\ dial[d].kind = "http" /\ dial[d].pc = "read"
    /\ \E ok \in BOOLEAN, status \in Statuses :
         LET r == [dial[d] EXCEPT !.status = status] IN
         dial' = [dial EXCEPT ![d] =
           IF ~ok THEN DialFails(dial[d], "read")
           ELSE IF StatusFailed(status) THEN DialFails(r, "status")
           ELSE DialReturns(ClearDeadline(r))]
    /\ UNCHANGED notDl

\* SOCKS5ProxyDialer.DialContext 51-72: network check, direct dial to the
\* proxy, the negotiation deadline, context.AfterFunc(ctx, c.Close) with a
\* deferred stop(), and the deadline of ctx, if it has one, put on the
\* connection in place of the negotiation deadline.
SOCKS5DialConnect(d) ==
    /\ dial[d].kind = "none"
    /\ \E network \in Networks, ok \in BOOLEAN, silent \in BOOLEAN,
          timeout \in NegotiationTimeouts, ctxDeadline \in BOOLEAN :
         LET r == [NoDial EXCEPT !.kind = "socks5", !.timeout = timeout,
                                 !.ctxDeadline = ctxDeadline,
                                 !.silent = ok /\ silent] IN
         dial' = [dial EXCEPT ![d] =
           IF ~HasPrefixTcp(network) THEN DialRefused(r, "unsupported")
           ELSE IF ~ok THEN DialRefused(r, "dial")
           ELSE [r EXCEPT !.conn = "open", !.hook = "armed", !.pc = "clientdial",
                          !.deadline = IF ctxDeadline THEN "ctx"
                                       ELSE IF timeout > 0 THEN "negotiation"
                                       ELSE @]]
    /\ UNCHANGED notDl

\* 78: socks5.ClientDial(c, auth, address) returns; on a connection the hook
\* has closed it can only fail, and with a proxy that never answers its
\* reads block until the connection is closed or its deadline expires.
SOCKS5DialClientDial(d) ==
    /\ dial[d].kind = "socks5" /\ dial[d].pc = "clientdial"
    /\ dial[d].silent => (dial[d].conn = "closed" \/ dial[d].deadline # "none")
    /\ \E ok \in (IF dial[d].conn = "closed" \/ dial[d].silent
                  THEN {FALSE} ELSE BOOLEAN) :
         dial' = [dial EXCEPT ![d] =
           IF ok THEN [dial[d] EXCEPT !.pc = "return"]
           ELSE DialFails(dial[d], "clientdial")]
    /\ UNCHANGED notDl

\* 83-87: clear the deadline, return c, nil (the deferred stop() runs).
SOCKS5DialReturn(d) ==
    /\ dial[d].kind = "socks5" /\ dial[d].pc = "return"
    /\ dial' = [dial EXCEPT ![d] = DialReturns(ClearDeadline(dial[d]))]
    /\ UNCHANGED notDl

\* newTransport 215-230: dial the SSH server, build the auth methods (an
\* error here returns without touching conn), arm the cancellation hook.
NewTransportDial(d) ==
    /\ dial[d].kind = "none"
    /\ \E cfg \in NewClientConfigs, ok \in BOOLEAN :
         LET r == [NoDial EXCEPT !.kind = "ssh"] IN
         dial' = [dial EXCEPT ![d] =
           IF ~ok THEN DialRefused(r, "dial")
           ELSE IF AuthMethodsFails(cfg)
                THEN [r EXCEPT !.conn = "open", !.pc = "done", !.ret = "err", !.err = "auth"]
                ELSE [r EXCEPT !.conn = "open", !.hook = "armed", !.pc = "handshake"]]
    /\ UNCHANGED notDl

\* 254-264: ssh.NewClientConn(conn, ...); on error conn is closed, else the
\* *ssh.Client that owns conn is returned.  On a connection the hook has
\* closed the handshake can only fail.
NewTransportHandshake(d) ==
    /\ dial[d].kind = "ssh" /\ dial[d].pc = "handshake"
    /\ \E ok \in (IF dial[d].conn = "closed" THEN {FALSE} ELSE BOOLEAN) :
         dial' = [dial EXCEPT ![d] =
           IF ok THEN DialReturns(dial[d])
           ELSE DialFails(dial[d], "handshake")]
    /\ UNCHANGED notDl

\* The ctx handed to the dialer is cancelled while the call is under way.
DialCancel(d) ==
    /\ dial[d].kind # "none" /\ dial[d].pc # "done"
    /\ ~dial[d].ctxDone
    /\ dial' = [dial EXCEPT ![d].ctxDone = TRUE]
    /\ UNCHANGED notDl

\* socks5_proxy.go 66, client.go 228: `_ = c.Close()` in the hook.
HookLeavesConnOpen == "open"
HookConn == "closed"

\* socks5_proxy.go 65-67, client.go 227-229: the AfterFunc hook closes the
\* connection once ctx is done, unless stop() came first.
DialHookFire(d) ==
    /\ dial[d].hook = "armed" /\ dial[d].ctxDone
    /\ dial' = [dial EXCEPT ![d].hook = "fired", ![d].conn = HookConn]
    /\ UNCHANGED notDl

DlNext ==
    \E d \in Dials :
        \/ HTTPDialConnect(d)
        \/ HTTPDialTLS(d)
        \/ HTTPDialWrite(d)
        \/ HTTPDialRead(d)
        \/ SOCKS5DialConnect(d)
        \/ SOCKS5DialClientDial(d)
        \/ SOCKS5DialReturn(d)
        \/ NewTransportDial(d)
        \/ NewTransportHandshake(d)
        \/ DialCancel(d)
        \/ DialHookFire(d)

\* C11: every connection a dialer opened is returned to the caller or closed
\* by the time the dialer returns: a call that returned an error holds no
\* open connection, and a call that returned a connection had opened one.
C11_ConnReturnedOrClosed ==
    \A d \in Dials :
        /\ dial[d].ret = "err" => dial[d].conn \in {"none", "closed"}
        /\ dial[d].ret = "conn" => dial[d].conn # "none"
        /\ dial[d].pc = "done" => dial[d].ret # "none"
        /\ dial[d].pc = "done" => dial[d].hook \in {"none", "stopped", "fired"}

\* C11 witness: one call opened a connection, failed in the exchange that
\* followed and returned an error with the connection closed; another call
\* was cancelled, its hook closed the connection and it returned an error.
C11_Witness ==
    \E d, e \in Dials :
        /\ dial[d].ret = "err" /\ dial[d].err = "status" /\ dial[d].conn = "closed"
        /\ dial[e].ret = "err" /\ dial[e].hook = "fired" /\ dial[e].conn = "closed"

\* context.AfterFunc runs the hook in a goroutine of its own and the dialer's
\* goroutine runs on when its call returns.
DlFairness ==
    \A d \in Dials :
        /\ WF_vars(DialHookFire(d))
        /\ WF_vars(SOCKS5DialClientDial(d))

\* The dialer of call d returned a stream to its caller.
StreamReturned(d) == dial[d].kind \in {"http", "socks5"} /\ dial[d].ret = "conn"

\* C22: a stream the SOCKS5 or the HTTP CONNECT dialer returns without error
\* has no deadline on it, whatever the negotiation timeout and whether or not
\* the caller's context has a deadline.
C22_ReturnedStreamHasNoDeadline ==
    \A d \in Dials : StreamReturned(d) => dial[d].deadline = "none"

\* ctx is cancelled while call d of the SOCKS5 dialer negotiates with a proxy
\* that never answers.
CancelledMidNegotiation(d) ==
    /\ dial[d].kind = "socks5" /\ dial[d].pc = "clientdial"
    /\ dial[d].silent /\ dial[d].ctxDone
\* The call returned an error and its connection is closed.
FailedClosed(d) ==
    dial[d].pc = "done" /\ dial[d].ret = "err" /\ dial[d].conn = "closed"

\* C23: when ctx is cancelled while the SOCKS5 dialer negotiates with a proxy
\* that never answers, the connection to the proxy gets closed, ClientDial
\* unblocks and DialContext returns an error with that connection (the only
\* socket the call opened) closed.
C23_CancelUnblocksNegotiation ==
    \A d \in Dials : CancelledMidNegotiation(d) ~> FailedClosed(d)

\* The call against a silent proxy, without any deadline, was cancelled, the
\* hook closed the connection and the call returned its error.
C23_Witness ==
    \E d \in Dials :
        /\ dial[d].kind = "socks5" /\ dial[d].silent /\ dial[d].deadline = "none"
        /\ dial[d].ctxDone /\ dial[d].hook = "fired"
        /\ FailedClosed(d)

\* C24: the HTTP CONNECT dialer returns a stream only after it read a
\* response with a status from 200 to 299, and returns it, open, whenever it
\* read one; once it has read a response with any other status the call has
\* returned an error and the connection to the proxy is closed.
C24_StreamIffStatus2xx ==
    \A d \in Dials :
        dial[d].kind = "http" =>
            /\ dial[d].ret = "conn" => dial[d].status \in 200..299
            /\ dial[d].status \in 200..299 =>
                  (dial[d].pc = "done" /\ dial[d].ret = "conn" /\ dial[d].conn = "open")
            /\ (dial[d].status # 0 /\ dial[d].status \notin 200..299) =>
                  (dial[d].pc = "done" /\ dial[d].ret = "err" /\ dial[d].conn = "closed")

\* One call got 204 and returned the stream, another got 407 and failed.
C24_Witness ==
    \E d, e \in Dials :
        /\ dial[d].kind = "http" /\ dial[d].status = 204 /\ dial[d].ret = "conn"
        /\ dial[e].kind = "http" /\ dial[e].status = 407 /\ dial[e].ret = "err"
        /\ dial[e].conn = "closed"

(***************************************************************************)
(* Part IV.  CopyBidirectional (internal/proxy/copy.go 23-64) on one pair   *)
(*   of streams: left (the inbound socket) and right (the upstream), each  *)
(*   with a peer that sends bytes, half-closes or resets, the two          *)
(*   copyClose goroutines, the errgroup that runs them and the AfterFunc   *)
(*   hook on its context.                                                  *)
(***************************************************************************)
Streams == {"left", "right"}
Other(s) == IF s = "left" THEN "right" ELSE "left"
\* The bytes a peer sends: the copy never looks at a byte, so the k-th byte
\* sent on a stream carries the value k, which shows any loss, duplication or
\* reordering on the way.
NextByte(sent) == Len(sent) + 1

NoStream == [cw |-> FALSE, closed |-> FALSE, wshut |-> FALSE, broken |-> FALSE,
             inq |-> <<>>, eof |-> FALSE, sent |-> <<>>, rcvd |-> <<>>]
NoCopy == [pc |-> "idle", end |-> "none", err |-> "nil", buf |-> <<>>]
NoGroup == [pc |-> "idle", gctx |-> "live", hook |-> "none", err |-> "nil",
            cancelled |-> FALSE]

\* Before the call: two open streams, nothing in flight.
BrInit ==
    /\ strm = [s \in Streams |-> NoStream]
    /\ cp = [s \in Streams |-> NoCopy]
    /\ grp = NoGroup

\* copy.go 24-36: errgroup.WithContext, AfterFunc on gctx, two g.Go.  The copy
\* goroutine cp[s] reads from s and writes to Other(s).  Each stream is of a
\* type that has CloseWrite (*net.TCPConn) or has not.
CopyBidirectional ==
    /\ grp.pc = "idle"
    /\ \E l, r \in BOOLEAN :
         strm' = [s \in Streams |-> [NoStream EXCEPT !.cw = IF s = "left" THEN l ELSE r]]
    /\ grp' = [grp EXCEPT !.pc = "wait", !.hook = "armed"]
    /\ cp' = [s \in Streams |-> [NoCopy EXCEPT !.pc = "read"]]
    /\ UNCHANGED notBr

\* errgroup: the first goroutine to return a non-nil error records it and
\* cancels gctx.
CancelsOnErrorNever(err) == FALSE
CancelsOnError(err) == err # "nil"

GroupAfterReturn(err) ==
    IF CancelsOnError(err) /\ grp.err = "nil"
    THEN [grp EXCEPT !.err = err, !.gctx = "done"]
    ELSE grp

\* copy.go 47, io.Copy reading src: a locally closed conn yields
\* net.ErrClosed, a reset conn an I/O error, else the next byte in flight, or
\* EOF once the peer has half-closed and nothing is left; otherwise it blocks.
ReadOutcome(s) ==
    IF strm[s].closed THEN "errclosed"
    ELSE IF strm[s].broken THEN "io"
    ELSE IF strm[s].inq # <<>> THEN "data"
    ELSE IF strm[s].eof THEN "eof"
    ELSE "block"

\* copy.go 50-52: net.ErrClosed is not reported; EOF is no error for io.Copy.
CopyErrReportsClosed(outcome) == IF outcome \in {"io", "errclosed"} THEN "io" ELSE "nil"
CopyErr(outcome) == IF outcome = "io" THEN "io" ELSE "nil"

CopyRead(s) ==
    /\ cp[s].pc = "read"
    /\ LET o == ReadOutcome(s) IN
       /\ o # "block"
       /\ IF o = "data"
          THEN /\ cp' = [cp EXCEPT ![s].pc = "write", ![s].buf = <<Head(strm[s].inq)>>]
               /\ strm' = [strm EXCEPT ![s].inq = Tail(@)]
          ELSE /\ cp' = [cp EXCEPT ![s].pc = "close", ![s].end = o, ![s].err = CopyErr(o)]
               /\ strm' = strm
    /\ UNCHANGED <<grp, notBr>>

\* io.Copy writing to dst: fails on a closed or reset conn, else the byte
\* reaches the peer of dst.
WriteOutcome(d) ==
    IF strm[d].closed THEN "errclosed"
    ELSE IF strm[d].broken THEN "io"
    ELSE "data"

\* What the peer of dst has received once buf is written.
WrittenNothing(rcvd, buf) == rcvd
Written(rcvd, buf) == rcvd \o buf

CopyWrite(s) ==
    /\ cp[s].pc = "write"
    /\ LET d == Other(s)
           o == WriteOutcome(d) IN
       IF o = "data"
       THEN /\ strm' = [strm EXCEPT ![d].rcvd = Written(@, cp[s].buf)]
            /\ cp' = [cp EXCEPT ![s].pc = "read", ![s].buf = <<>>]
       ELSE /\ strm' = strm
            /\ cp' = [cp EXCEPT ![s].pc = "close", ![s].end = o, ![s].err = CopyErr(o),
                                  ![s].buf = <<>>]
    /\ UNCHANGED <<grp, notBr>>

\* net.Conn.Close: the conn is gone for reads and writes, and what was in
\* flight towards it and not yet read is dropped.
Closed(c) == [c EXCEPT !.closed = TRUE, !.wshut = FALSE, !.inq = <<>>]

\* copy.go 54-63: CloseWrite on dst when its type has it, else Close; then
\* the goroutine returns err to the errgroup.
HalfCloseNever(d) == FALSE
HalfCloses(d) == strm[d].cw

CopyClose(s) ==
    /\ cp[s].pc = "close"
    /\ LET d == Other(s) IN
       strm' = IF HalfCloses(d)
               THEN [strm EXCEPT ![d].wshut = ~strm[d].closed]
               ELSE [strm EXCEPT ![d] = Closed(@)]
    /\ cp' = [cp EXCEPT ![s].pc = "done"]
    /\ grp' = GroupAfterReturn(cp[s].err)
    /\ UNCHANGED notBr

\* copy.go 25-28: the AfterFunc hook, in a goroutine of its own once gctx is
\* done: left.Close(), then right.Close().
HookClosesLeftOnly == {"left"}
HookCloses == {"left", "right"}

HookCloseLeft ==
    /\ grp.hook = "armed" /\ grp.gctx = "done"
    /\ strm' = [strm EXCEPT !["left"] = IF "left" \in HookCloses THEN Closed(@) ELSE @]
    /\ grp' = [grp EXCEPT !.hook = "running"]
    /\ UNCHANGED <<cp, notBr>>

HookCloseRight ==
    /\ grp.hook = "running"
    /\ strm' = [strm EXCEPT !["right"] = IF "right" \in HookCloses THEN Closed(@) ELSE @]
    /\ grp' = [grp EXCEPT !.hook = "fired"]
    /\ UNCHANGED <<cp, notBr>>

\* The caller's ctx is cancelled during the call: gctx, derived from it, is
\* done.
GctxDetached == "live"
GctxAfterCancel == "done"

BridgeCancel ==
    /\ grp.pc = "wait" /\ ~grp.cancelled
    /\ grp' = [grp EXCEPT !.cancelled = TRUE,
                          !.gctx = IF @ = "done" THEN @ ELSE GctxAfterCancel]
    /\ UNCHANGED <<strm, cp, notBr>>

\* copy.go 38-41: g.Wait() returns once both goroutines have, cancelling
\* gctx, and CopyBidirectional returns the group's error.
WaitReturns == \A s \in Streams : cp[s].pc = "done"

CopyBidirectionalReturn ==
    /\ grp.pc = "wait"
    /\ WaitReturns
    /\ grp' = [grp EXCEPT !.pc = "returned", !.gctx = "done"]
    /\ UNCHANGED <<strm, cp, notBr>>

\* The peer of stream s: it sends a byte, ...
PeerCanAct(s) == grp.pc = "wait" /\ ~strm[s].eof /\ ~strm[s].broken /\ ~strm[s].closed
PeerSend(s) ==
    /\ PeerCanAct(s)
    /\ Len(strm[s].sent) < MaxBytes
    /\ LET b == NextByte(strm[s].sent) IN
       strm' = [strm EXCEPT ![s].inq = Append(@, b), ![s].sent = Append(@, b)]
    /\ UNCHANGED <<cp, grp, notBr>>

\* ... shuts its sending side (the proxy will read EOF after what is in
\* flight), ...
PeerHalfClose(s) ==
    /\ PeerCanAct(s)
    /\ strm' = [strm EXCEPT ![s].eof = TRUE]
    /\ UNCHANGED <<cp, grp, notBr>>

\* ... or the connection is reset: reads and writes on s fail from now on.
PeerReset(s) ==
    /\ grp.pc = "wait" /\ ~strm[s].broken /\ ~strm[s].closed
    /\ strm' = [strm EXCEPT ![s].broken = TRUE, ![s].inq = <<>>]
    /\ UNCHANGED <<cp, grp, notBr>>

BrNext ==
    \/ CopyBidirectional
    \/ \E s \in Streams : CopyRead(s)
    \/ \E s \in Streams : CopyWrite(s)
    \/ \E s \in Streams : CopyClose(s)
    \/ HookCloseLeft
    \/ HookCloseRight
    \/ BridgeCancel
    \/ CopyBidirectionalReturn
    \/ \E s \in Streams : PeerSend(s)
    \/ \E s \in Streams : PeerHalfClose(s)
    \/ \E s \in Streams : PeerReset(s)

\* The goroutines and the hook run whenever they can; peers and cancellation
\* are under no obligation.
BrFairness ==
    /\ \A s \in Streams : WF_vars(CopyRead(s)) /\ WF_vars(CopyWrite(s)) /\ WF_vars(CopyClose(s))
    /\ WF_vars(HookCloseLeft) /\ WF_vars(HookCloseRight)
    /\ WF_vars(CopyBidirectionalReturn)

(***************************************************************************)
(* Claims about CopyBidirectional.                                         *)
(***************************************************************************)
BridgeReturned == grp.pc = "returned"
BothClosed == \A s \in Streams : strm[s].closed
\* The call met a cancellation or a connection reset.
Faulted == grp.cancelled \/ \E s \in Streams : strm[s].broken
IsPrefix(p, q) == Len(p) <= Len(q) /\ \A n \in 1..Len(p) : p[n] = q[n]

\* C12 (as stated): when CopyBidirectional has returned, both streams are
\* fully closed.
C12_ClosedOnReturn == BridgeReturned => BothClosed

\* C12 (amended): when CopyBidirectional has returned, gctx is cancelled and
\* every stream is fully closed or is about to be closed by the AfterFunc
\* hook, which runs in a goroutine of its own and may still be on its way.
C12_ClosedOrHookPending ==
    BridgeReturned =>
        /\ grp.gctx = "done"
        /\ \A s \in Streams :
              \/ strm[s].closed
              \/ grp.hook = "armed"
              \/ grp.hook = "running" /\ s = "right"

\* C12 witness: the call has returned after two clean EOFs and a stream is
\* still only half-closed, waiting for the hook.
C12_Witness ==
    /\ BridgeReturned /\ ~Faulted /\ grp.err = "nil"
    /\ \E s \in Streams : ~strm[s].closed /\ strm[s].wshut

\* C13 (as stated): once either direction has completed, the call tears down
\* and returns, whatever the other direction's source does.
C13_ReturnsOnceOneDirectionEnds ==
    (\E s \in Streams : cp[s].pc = "done") ~> BridgeReturned

\* What ends the whole bridge: cancellation, a direction that ended with an
\* I/O error, or a direction that ended (however) on a destination that has
\* no CloseWrite and was therefore fully closed.
TearsDown ==
    \/ grp.cancelled
    \/ \E s \in Streams : cp[s].pc = "done" /\ cp[s].err # "nil"
    \/ \E s \in Streams : cp[s].pc = "done" /\ ~strm[Other(s)].cw

\* C13 (amended): CopyBidirectional returns only when both directions have
\* completed; cancellation, an I/O error in one direction, or the end of a
\* direction whose destination has no CloseWrite lead to the return without
\* the other source reaching EOF; after a clean end of one direction on a
\* destination with CloseWrite the other direction is left running (it is
\* still blocked in its read as long as its source is silent).
C13_Inv ==
    /\ BridgeReturned => \A s \in Streams : cp[s].pc = "done"
    /\ \A s \in Streams :
         (grp.pc = "wait" /\ cp[s].pc = "done" /\ ~TearsDown /\ ~Faulted
            /\ ~strm[Other(s)].eof /\ strm[Other(s)].inq = <<>>
            /\ cp[Other(s)].pc = "read") =>
               ReadOutcome(Other(s)) = "block" /\ grp.gctx = "live"
C13_EndsOnErrorCancelOrFullClose == []C13_Inv /\ (TearsDown ~> BridgeReturned)

\* C13 witness: the left-to-right direction has ended with EOF and half-closed
\* the upstream, while the other direction is blocked in its read and the
\* call has not returned.
C13_Witness ==
    /\ grp.pc = "wait" /\ grp.gctx = "live"
    /\ cp["left"].pc = "done" /\ cp["left"].end = "eof" /\ strm["right"].wshut
    /\ cp["right"].pc = "read" /\ ReadOutcome("right") = "block"

\* C14: a direction that ends shuts its destination for writing when the
\* stream has CloseWrite and closes it fully when not, and on that step
\* leaves its own source as it is; so while nothing is cancelled or reset, a
\* stream with CloseWrite is never closed before the call is over, nothing
\* it still carries is dropped, and the bridge ends only after everything
\* its peer sent has been delivered to the other side.
C14_Inv ==
    \A d \in Streams :
        (strm[d].cw /\ ~Faulted) =>
            /\ (grp.pc = "wait" => ~strm[d].closed)
            /\ IsPrefix(strm[Other(d)].rcvd, strm[d].sent)
            /\ Len(strm[Other(d)].rcvd) + Len(cp[d].buf) + Len(strm[d].inq)
                  = Len(strm[d].sent)
            /\ BridgeReturned => strm[Other(d)].rcvd = strm[d].sent
C14_Step ==
    \A s \in Streams :
        (cp[s].pc = "close" /\ cp'[s].pc = "done") =>
            /\ IF strm[Other(s)].cw
               THEN /\ strm'[Other(s)].closed = strm[Other(s)].closed
                    /\ strm'[Other(s)].wshut = ~strm[Other(s)].closed
                    /\ strm'[Other(s)].inq = strm[Other(s)].inq
               ELSE strm'[Other(s)].closed
            /\ strm'[s] = strm[s]
            /\ cp'[Other(s)] = cp[Other(s)]
C14_HalfCloseLetsPeerDrain == []C14_Inv /\ [][C14_Step]_vars

\* C14 witness: the inbound side half-closed first and the upstream was shut
\* for writing; the upstream's bytes, in flight at that moment, were still
\* delivered to the inbound side before the bridge ended.
C14_Witness ==
    /\ BridgeReturned /\ ~Faulted
    /\ strm["right"].cw /\ strm["left"].cw
    /\ strm["right"].sent # <<>> /\ strm["left"].rcvd = strm["right"].sent
    /\ cp["left"].end = "eof" /\ cp["right"].end = "eof"

\* C15: a cancellation during the call leads to both streams closed and to
\* the return of CopyBidirectional, also when both copies sit in a read that
\* no peer will ever end.
C15_CancelClosesAndReturns ==
    grp.cancelled ~> (BridgeReturned /\ BothClosed)

\* C15 witness: the call was cancelled with both copies blocked in their
\* reads; it has returned and both streams are closed.
C15_Witness ==
    /\ BridgeReturned /\ BothClosed /\ grp.cancelled
    /\ \A s \in Streams : cp[s].end = "errclosed" /\ strm[s].sent = <<>> /\ ~strm[s].eof
           /\ ~strm[s].broken

\* C16: what the upstream peer has received is always a prefix of what the
\* inbound side has sent (same bytes, same order, nothing duplicated), and
\* when the upstream is shut for writing after the inbound side's EOF was
\* read, it has received all of it.
C16_Inv == IsPrefix(strm["right"].rcvd, strm["left"].sent)
C16_Step ==
    (cp["left"].pc = "close" /\ cp'["left"].pc = "done" /\ cp["left"].end = "eof") =>
        /\ strm["right"].rcvd = strm["left"].sent
        /\ strm'["right"].rcvd = strm["right"].rcvd
        /\ cp["left"].err = "nil"
C16_InboundBytesReachUpstream == []C16_Inv /\ [][C16_Step]_vars

\* C16 witness: the inbound side sent all its bytes and half-closed; the
\* upstream received exactly these and was then shut for writing.
C16_Witness ==
    /\ Len(strm["left"].sent) = MaxBytes /\ strm["left"].eof
    /\ cp["left"].pc = "done" /\ cp["left"].end = "eof"
    /\ strm["right"].rcvd = strm["left"].sent
    /\ strm["right"].wshut

(***************************************************************************)
(* Part V.  NewHostKeyCallback (internal/ssh/knownhosts.go 22-88): the     *)
(*   known_hosts file, the database knownhosts.New loaded from it when the *)
(*   callback was made, and the checks made through the callback.          *)
(***************************************************************************)
\* A line of the file: <<host, key>>.
HostKeys == Hosts \X Keys
\* The file as it is found by the first NewHostKeyCallback: empty (or just
\* created), or with one host already in it.
InitialFiles == {<<>>} \cup {<<l>> : l \in HostKeys}
Lines(file) == {file[n] : n \in 1..Len(file)}
\* The keys a set of lines holds for host h.
KeysOf(lines, h) == {l[2] : l \in {x \in lines : x[1] = h}}

NoCheck == [host |-> 0, key |-> 0, result |-> "none", onFile |-> {}]

KhInit ==
    /\ khFile = <<>>
    /\ khCb = [mode |-> "none", db |-> {}]
    /\ khLast = NoCheck
    /\ khChecks = 0

\* knownhosts.go 22-47: with an empty path checking is disabled; else the
\* file is created if missing and knownhosts.New(path) loads it, once.
NewHostKeyCallback ==
    /\ \E hasPath \in BOOLEAN, file \in InitialFiles :
         IF ~hasPath
         THEN /\ khCb.mode = "none"
              /\ khCb' = [mode |-> "insecure", db |-> {}]
              /\ khFile' = khFile
         ELSE /\ khCb.mode # "insecure"
              /\ khFile' = IF khCb.mode = "none" THEN file ELSE khFile
              /\ khCb' = [mode |-> "tofu", db |-> Lines(khFile')]
    /\ khCb' # khCb
    /\ UNCHANGED <<khLast, khChecks, notKh>>

\* knownhosts.go 51-66: the verdict of the database loaded by knownhosts.New:
\* the key is known for the host, or the host has other keys (KeyError with
\* Want), or the host is unknown (KeyError without Want).
DbOf(cb, file) == cb.db

Verdict(db, h, k) ==
    IF k \in KeysOf(db, h) THEN "known"
    ELSE IF KeysOf(db, h) # {} THEN "mismatch"
    ELSE "unknown"

\* knownhosts.go 50-87: one call of the callback.  An unknown host is
\* appended to the file (which may fail) and accepted.
HostKeyCheck(h, k) ==
    /\ khCb.mode \in {"tofu", "insecure"}
    /\ khChecks < MaxChecks
    /\ khChecks' = khChecks + 1
    /\ \E written \in BOOLEAN :
         LET v == IF khCb.mode = "insecure" THEN "known"
                  ELSE Verdict(DbOf(khCb, khFile), h, k)
             result == CASE v = "known" -> "accept"
                         [] v = "mismatch" -> "reject"
                         [] OTHER -> IF written THEN "accept" ELSE "error"
         IN
         /\ (v # "unknown") => written
         /\ khFile' = IF v = "unknown" /\ written THEN Append(khFile, <<h, k>>) ELSE khFile
         /\ khLast' = [host |-> h, key |-> k, result |-> result,
                       onFile |-> KeysOf(Lines(khFile), h)]
    /\ UNCHANGED <<khCb, notKh>>

KhNext ==
    \/ NewHostKeyCallback
    \/ \E h \in Hosts, k \in Keys : HostKeyCheck(h, k)

\* C17: through a callback made for a known-hosts file, a host that is not in
\* the file is accepted with the key it presents and that key is persisted;
\* a host that is in the file - from before or from an earlier check, in this
\* process or another - is accepted only with a key the file holds for it.
C17_TrustOnFirstUse ==
    (khCb.mode = "tofu" /\ khLast.result # "none") =>
        /\ khLast.result = "accept" =>
              /\ <<khLast.host, khLast.key>> \in Lines(khFile)
              /\ khLast.onFile = {} \/ khLast.key \in khLast.onFile
        /\ (khLast.onFile # {} /\ khLast.key \notin khLast.onFile) =>
              khLast.result = "reject"

(***************************************************************************)
(* Part VI.  The SOCKS5 client (internal/socks5/client.go) over one        *)
(*   connection, against ServerNegotiate (internal/socks5/server.go) as    *)
(*   TestClientDialToServer drives it, or against any other server.        *)
(***************************************************************************)
Usernames == {"", "user", "other"}
Passwords == {"pass", "wrong"}
\* reply.go 17-20
Auth == [Username : Usernames, Password : Passwords]
Addresses == {"ip4", "domain", "bad"}

NegotiationRequest(methods) == [typ |-> "methods", methods |-> methods]
UserPassNegotiationRequest(uname, passwd) ==
    [typ |-> "userpass", Uname |-> uname, Passwd |-> passwd]
UserPassNegotiationReply(status) == [typ |-> "status", code |-> status]
Request(cmd, atyp) == [typ |-> "request", Cmd |-> cmd, Atyp |-> atyp]

NoClient == [pc |-> "idle", auth |-> [Username |-> "", Password |-> "pass"],
             address |-> "ip4", read |-> <<>>, io |-> <<>>, neg |-> "run",
             ret |-> "none"]
NoServer == [pc |-> "idle", mode |-> "none",
             auth |-> [Username |-> "", Password |-> "pass"],
             connectRefuse |-> FALSE, io |-> <<>>, neg |-> "run", ret |-> "none"]
NoPipe == [c2s |-> <<>>, s2c |-> <<>>, broken |-> FALSE,
           cclosed |-> FALSE, sclosed |-> FALSE, sync |-> FALSE]

\* The frames a side has written and read so far, in order: io is the
\* sequence of its Write and Read calls that returned without error.
Wrote(io, typ) == Append(io, <<"w", typ>>)
Read(io, typ) == Append(io, <<"r", typ>>)

S5Init ==
    /\ s5c = NoClient
    /\ s5s = NoServer
    /\ s5p = NoPipe

\* The client returns err, leaving s2c unread: an error during the
\* negotiation is the negotiation's error, and the caller closes the
\* connection of a failed dial (dialer/socks5_proxy.go 78-81).
\* On the pipe of the test (socks5_test.go 63-65) each end is closed once
\* its side has returned, whatever it returned.
ClientReturns(c, s2c, err) ==
    /\ s5c' = [c EXCEPT !.pc = "done", !.ret = err,
                        !.neg = IF s5c.pc \in {"negotiate", "userpass"}
                                THEN "err" ELSE @]
    /\ s5p' = [s5p EXCEPT !.cclosed = (err # "nil" \/ s5p.sync), !.s2c = s2c]
\* The server returns err after it read a frame and wrote out; after an
\* error its connection is closed (proxy/socks5_server.go 137-181).
\* On a synchronous pipe the Write of `out` returns only when the client has
\* read it or an end is closed: the server is in that Write ("flush") first.
ServerReturns(io, out, err) ==
    /\ s5s' = [s5s EXCEPT !.pc = IF s5p.sync /\ out # <<>> THEN "flush" ELSE "done",
                          !.ret = err, !.io = io,
                          !.neg = IF s5s.pc \in {"negotiate", "userpass"}
                                  THEN "err" ELSE @]
    /\ s5p' = [s5p EXCEPT !.sclosed = IF s5p.sync THEN out = <<>> ELSE err # "nil",
                          !.s2c = out, !.c2s = Tail(@)]

\* socks5_test.go 62-82: the server side of the connection is set up.
ServerStart ==
    /\ s5s.pc = "idle"
    /\ \E mode \in {"conduit", "other"}, auth \in Auth, refuse \in BOOLEAN,
          sync \in BOOLEAN :
         /\ mode = "other" => (auth = NoServer.auth /\ ~refuse /\ ~sync)
         /\ s5s' = [s5s EXCEPT !.pc = "negotiate", !.mode = mode, !.auth = auth,
                               !.connectRefuse = refuse]
         \* socks5_test.go 63: net.Pipe(), or a connection with buffers
         /\ s5p' = [s5p EXCEPT !.sync = sync]
    /\ UNCHANGED <<s5c, notS5>>

\* client.go 25-28
OfferedMethods(auth) ==
    IF auth.Username # "" THEN {MethodNone, MethodUsernamePassword}
                          ELSE {MethodNone}

\* client.go 13-33: ClientDial calls ClientNegotiate, which writes the
\* methods it offers.
ClientDial ==
    /\ s5c.pc = "idle"
    /\ s5s.pc # "idle"
    /\ ~s5p.broken
    /\ \E auth \in Auth, address \in Addresses :
         s5c' = [s5c EXCEPT !.pc = "negotiate", !.auth = auth, !.address = address,
                            !.io = Wrote(@, "methods")]
    /\ s5p' = [s5p EXCEPT !.c2s = Append(@, NegotiationRequest(OfferedMethods(s5c'.auth)))]
    /\ UNCHANGED <<s5s, notS5>>

\* A read finds a frame of the peer.  On a synchronous pipe the side's own
\* Write before it has returned by then: the peer has read the frame.
ClientCanRead == ~s5p.broken /\ s5p.s2c # <<>> /\ (s5p.sync => s5p.c2s = <<>>)
ServerCanRead == ~s5p.broken /\ s5p.c2s # <<>> /\ (s5p.sync => s5p.s2c = <<>>)
\* A read or write fails: the connection broke, or the peer closed it and
\* nothing is left to read.
ClientIOFails == s5p.broken \/ (s5p.sclosed /\ s5p.s2c = <<>>)
ServerIOFails == s5p.broken \/ (s5p.cclosed /\ s5p.c2s = <<>>)

\* client.go 42: the case of the username/password sub-negotiation.
SelectsUserPassOrNone(method) == method \in {MethodNone, MethodUsernamePassword}
SelectsUserPass(method) == method = MethodUsernamePassword

\* client.go 47-49: the credentials are written.
WriteUserPassNothing(c2s, auth) == c2s
WriteUserPass(c2s, auth) ==
    Append(c2s, UserPassNegotiationRequest(auth.Username, auth.Password))

\* client.go 34-60: the selected method is read and acted on.
ClientNegotiate ==
    /\ s5c.pc = "negotiate"
    /\ ClientCanRead
    /\ LET neg == Head(s5p.s2c)
           rest == Tail(s5p.s2c)
           c == [s5c EXCEPT !.read = Append(@, neg), !.io = Read(@, "method")]
       IN
       IF SelectsUserPass(neg.code)
       THEN IF c.auth.Username = ""
            THEN ClientReturns(c, rest, "server requires username/password")
            ELSE /\ s5c' = [c EXCEPT !.pc = "userpass", !.io = Wrote(@, "userpass")]
                 /\ s5p' = [s5p EXCEPT !.s2c = rest,
                              !.c2s = WriteUserPass(@, c.auth)]
       ELSE IF neg.code = MethodNone
       THEN /\ s5c' = [c EXCEPT !.pc = "connect", !.neg = "nil"]
            /\ s5p' = [s5p EXCEPT !.s2c = rest]
       ELSE ClientReturns(c, rest, "unsupported negotiation method")
    /\ UNCHANGED <<s5s, notS5>>

\* client.go 54
StatusFails(status) == status # UserPassStatusSuccess

\* client.go 50-57
ClientUserPass ==
    /\ s5c.pc = "userpass"
    /\ ClientCanRead
    /\ LET rep == Head(s5p.s2c)
           rest == Tail(s5p.s2c)
           c == [s5c EXCEPT !.read = Append(@, rep), !.io = Read(@, "status")]
       IN
       IF StatusFails(rep.code)
       THEN ClientReturns(c, rest, "auth failed")
       ELSE /\ s5c' = [c EXCEPT !.pc = "connect", !.neg = "nil"]
            /\ s5p' = [s5p EXCEPT !.s2c = rest]
    /\ UNCHANGED <<s5s, notS5>>

\* client.go 65-76: ClientConnect parses the address and writes the request.
ClientConnect ==
    /\ s5c.pc = "connect"
    /\ ~s5p.broken
    /\ IF ParseAddressFails(s5c.address)
       THEN ClientReturns(s5c, s5p.s2c, "parse address")
       ELSE /\ s5c' = [s5c EXCEPT !.pc = "reply", !.io = Wrote(@, "request")]
            /\ s5p' = [s5p EXCEPT !.c2s =
                         Append(@, Request(CmdConnect, ParseAddressAtyp(s5c.address)))]
    /\ UNCHANGED <<s5s, notS5>>

\* client.go 82
RepFailsNever(rep) == FALSE
RepFails(rep) == rep # RepSuccess

\* client.go 78-85: one reply is read.
ClientReply ==
    /\ s5c.pc = "reply"
    /\ ClientCanRead
    /\ LET rep == Head(s5p.s2c)
           c == [s5c EXCEPT !.read = Append(@, rep), !.io = Read(@, "reply")]
       IN ClientReturns(c, Tail(s5p.s2c),
                        IF RepFails(rep.code) THEN "connect failed" ELSE "nil")
    /\ UNCHANGED <<s5s, notS5>>

\* client.go 30-32, 35-37, 48-54, 74-81: a write or a read fails.
ClientIOError ==
    /\ s5c.pc \in {"negotiate", "userpass", "connect", "reply"}
    /\ ClientIOFails
    /\ ClientReturns(s5c, s5p.s2c, "io")
    /\ UNCHANGED <<s5s, notS5>>

\* The server's last Write on a synchronous pipe returns: the client has read
\* the frame, or closed its end (the Write fails; only WriteSuccessReply's
\* result is looked at, socks5_test.go 88-96, server.go 95, 105, 116).
ServerFlush ==
    /\ s5s.pc = "flush"
    /\ s5p.s2c = <<>> \/ s5p.cclosed
    /\ s5s' = [s5s EXCEPT !.pc = "done",
                          !.ret = IF s5p.s2c # <<>> /\ @ = "nil" /\ ~s5s.connectRefuse
                                  THEN "io" ELSE @]
    /\ s5p' = [s5p EXCEPT !.sclosed = TRUE, !.s2c = <<>>]
    /\ UNCHANGED <<s5c, notS5>>

\* server.go 140-147
containsMethod(methods, want) == want \in methods

\* server.go 86-96, 115-122: ServerNegotiate reads the offered methods and
\* selects one, or writes "no acceptable methods" and fails.
ServerNegotiate ==
    /\ s5s.pc = "negotiate"
    /\ s5s.mode = "conduit"
    /\ ServerCanRead
    /\ LET neg == Head(s5p.c2s)
           io == Wrote(Read(s5s.io, "methods"), "method") IN
       IF s5s.auth.Username # ""
       THEN IF ~containsMethod(neg.methods, MethodUsernamePassword)
            THEN ServerReturns(io, Append(s5p.s2c, NegotiationReply(MethodNoAcceptable, TRUE)),
                               "client does not support username/password")
            ELSE /\ s5s' = [s5s EXCEPT !.pc = "userpass", !.io = io]
                 /\ s5p' = [s5p EXCEPT !.c2s = Tail(@),
                              !.s2c = Append(@, NegotiationReply(MethodUsernamePassword, TRUE))]
       ELSE IF ~containsMethod(neg.methods, MethodNone)
            THEN ServerReturns(io, Append(s5p.s2c, NegotiationReply(MethodNoAcceptable, TRUE)),
                               "client does not support no-auth")
            ELSE /\ s5s' = [s5s EXCEPT !.pc = "request", !.neg = "nil", !.io = io]
                 /\ s5p' = [s5p EXCEPT !.c2s = Tail(@),
                              !.s2c = Append(@, NegotiationReply(MethodNone, TRUE))]
    /\ UNCHANGED <<s5c, notS5>>

\* server.go 104
CredentialsDifferUsernameOnly(urq, auth) == urq.Uname # auth.Username
CredentialsDiffer(urq, auth) ==
    urq.Uname # auth.Username \/ urq.Passwd # auth.Password

\* server.go 100-112: the username/password sub-negotiation.
ServerNegotiateUserPass ==
    /\ s5s.pc = "userpass"
    /\ s5s.mode = "conduit"
    /\ ServerCanRead
    /\ LET urq == Head(s5p.c2s)
           io == Wrote(Read(s5s.io, "userpass"), "status") IN
       IF CredentialsDiffer(urq, s5s.auth)
       THEN ServerReturns(io, Append(s5p.s2c, UserPassNegotiationReply(UserPassStatusFailure)),
                          "auth failed")
       ELSE /\ s5s' = [s5s EXCEPT !.pc = "request", !.neg = "nil", !.io = io]
            /\ s5p' = [s5p EXCEPT !.c2s = Tail(@),
                         !.s2c = Append(@, UserPassNegotiationReply(UserPassStatusSuccess))]
    /\ UNCHANGED <<s5c, notS5>>

\* socks5_test.go 84-96: the request is read and answered.
ServerAnswer ==
    /\ s5s.pc = "request"
    /\ s5s.mode = "conduit"
    /\ ServerCanRead
    /\ LET req == Head(s5p.c2s)
           io == Read(s5s.io, "request") IN
       IF req.Cmd # CmdConnect
       THEN ServerReturns(io, s5p.s2c, "unexpected command")
       ELSE IF s5s.connectRefuse
       THEN ServerReturns(Wrote(io, "reply"),
                          WriteConnectionRefusedReply(s5p.s2c, req.Atyp, TRUE), "nil")
       ELSE ServerReturns(Wrote(io, "reply"), WriteSuccessReply(s5p.s2c, "ip4", TRUE), "nil")
    /\ UNCHANGED <<s5c, notS5>>

\* server.go 87-90, 94-103, 108-110, 119-121, 133-136: a read or write fails.
ServerIOError ==
    /\ s5s.pc \in {"negotiate", "userpass", "request"}
    /\ s5s.mode = "conduit"
    /\ ServerIOFails
    /\ s5s' = [s5s EXCEPT !.pc = "done", !.ret = "io",
                          !.neg = IF s5s.pc = "request" THEN @ ELSE "err"]
    /\ s5p' = [s5p EXCEPT !.sclosed = TRUE, !.s2c = IF s5p.sync THEN <<>> ELSE @]
    /\ UNCHANGED <<s5c, notS5>>

\* What a server may select, report and reply.
PeerMethods == {MethodNone, MethodUsernamePassword, MethodNoAcceptable}
PeerStatuses == {UserPassStatusSuccess, UserPassStatusFailure}
PeerReps == {RepSuccess, RepConnectionRefused}

\* A server that is not ServerNegotiate answers the client's frame with a
\* frame of the expected form and any content.
PeerAnswer ==
    /\ s5s.mode = "other"
    /\ s5s.pc = "negotiate"
    /\ ServerCanRead
    /\ LET f == Head(s5p.c2s) IN
       \E answer \in
           CASE f.typ = "methods" -> {NegotiationReply(x, TRUE) : x \in PeerMethods}
             [] f.typ = "userpass" -> {UserPassNegotiationReply(x) : x \in PeerStatuses}
             [] OTHER -> {NewReply(x, ATYPIPv4, IPv4zero, PortZero, TRUE) : x \in PeerReps} :
         s5p' = [s5p EXCEPT !.c2s = Tail(@), !.s2c = Append(@, answer)]
    /\ UNCHANGED <<s5c, s5s, notS5>>

\* socks5_test.go 69-72: the server closes the connection.
PeerAbort ==
    /\ s5s.mode = "other"
    /\ s5s.pc = "negotiate"
    /\ s5s' = [s5s EXCEPT !.pc = "done"]
    /\ s5p' = [s5p EXCEPT !.sclosed = TRUE]
    /\ UNCHANGED <<s5c, notS5>>

\* The connection between the two breaks.
PipeBreak ==
    /\ s5c.pc \notin {"idle", "done"}
    /\ ~s5p.broken /\ ~s5p.sync
    /\ s5p' = [s5p EXCEPT !.broken = TRUE, !.c2s = <<>>, !.s2c = <<>>]
    /\ UNCHANGED <<s5c, s5s, notS5>>

S5Next ==
    \/ ServerStart
    \/ ClientDial
    \/ ClientNegotiate
    \/ ClientUserPass
    \/ ClientConnect
    \/ ClientReply
    \/ ClientIOError
    \/ ServerNegotiate
    \/ ServerNegotiateUserPass
    \/ ServerAnswer
    \/ ServerIOError
    \/ ServerFlush
    \/ PeerAnswer
    \/ PeerAbort
    \/ PipeBreak

\* Both goroutines of the test are scheduled (socks5_test.go 68, 99).
S5Fairness ==
    /\ WF_vars(ClientNegotiate) /\ WF_vars(ClientUserPass)
    /\ WF_vars(ClientIOError)
    /\ WF_vars(ServerNegotiate) /\ WF_vars(ServerNegotiateUserPass)
    /\ WF_vars(ServerIOError)
\* ... and so are ClientConnect and the rest of the test's server goroutine.
S5PipeFairness ==
    /\ WF_vars(ClientConnect) /\ WF_vars(ClientReply)
    /\ WF_vars(ServerAnswer) /\ WF_vars(ServerFlush)

\* The credentials the server expects are the ones the client presents, or
\* the server expects none.
Acceptable(cauth, sauth) ==
    \/ sauth.Username = ""
    \/ cauth.Username = sauth.Username /\ cauth.Password = sauth.Password
\* ClientNegotiate runs against ServerNegotiate over a working connection.
Negotiating == s5s.mode = "conduit" /\ s5c.pc # "idle" /\ ~s5p.broken
NegotiationSettled == s5c.neg # "run" /\ s5s.neg # "run"

C18_Inv ==
    Negotiating =>
        /\ Acceptable(s5c.auth, s5s.auth) => (s5c.neg # "err" /\ s5s.neg # "err")
        /\ ~Acceptable(s5c.auth, s5s.auth) => (s5c.neg # "nil" /\ s5s.neg # "nil")

\* C18: over a working connection, for every pair of client credentials and
\* server expectation, ClientNegotiate and ServerNegotiate both come to an
\* end, and both end without error exactly when the server expects no
\* authentication or the client's username and password equal the server's;
\* otherwise both end with an error.
C18_NegotiationSucceedsIffAcceptable ==
    /\ []C18_Inv
    /\ Negotiating ~> (s5p.broken \/ NegotiationSettled)

\* Both sides completed a username/password negotiation.
C18_Witness ==
    /\ Negotiating
    /\ s5s.auth.Username # ""
    /\ s5c.neg = "nil" /\ s5s.neg = "nil"
    /\ Len(s5c.read) = 2

\* The frames the client read are a selected method 0x00, or 0x02 and a
\* successful sub-negotiation, and then one reply with rep 0x00.
ReadSuccess(read) ==
    \/ /\ Len(read) = 2
       /\ read[1].typ = "method" /\ read[1].code = MethodNone
       /\ read[2].typ = "reply" /\ read[2].code = RepSuccess
    \/ /\ Len(read) = 3
       /\ read[1].typ = "method" /\ read[1].code = MethodUsernamePassword
       /\ read[2].typ = "status" /\ read[2].code = UserPassStatusSuccess
       /\ read[3].typ = "reply" /\ read[3].code = RepSuccess
\* A frame that must make ClientDial fail.
Failing(f) ==
    \/ f.typ = "method" /\ f.code \notin {MethodNone, MethodUsernamePassword}
    \/ f.typ = "status" /\ f.code # UserPassStatusSuccess
    \/ f.typ = "reply" /\ f.code # RepSuccess

\* C19: ClientDial returns nil only after it read a selected method 0x00, or
\* 0x02 followed by a successful sub-negotiation status, and then a single
\* reply with rep 0x00; as soon as it has read another method, a failed
\* sub-negotiation status or a non-zero rep it has returned an error.
C19_ClientDialSucceedsOnlyOnSuccess ==
    /\ s5c.ret = "nil" => ReadSuccess(s5c.read)
    /\ (\E n \in 1..Len(s5c.read) : Failing(s5c.read[n])) =>
           (s5c.pc = "done" /\ s5c.ret \notin {"none", "nil"})

\* ClientDial failed on a refused CONNECT after a successful sub-negotiation.
C19_Witness ==
    /\ s5c.pc = "done" /\ s5c.ret = "connect failed"
    /\ Len(s5c.read) = 3
    /\ s5c.read[3].code = RepConnectionRefused

\* The SOCKS5 replies among the frames written to an inbound connection.
Replies(out) == SelectSeq(out, LAMBDA f : f.typ = "reply")
\* handleConn parsed a CONNECT request on connection i and its dial failed.
DialFailed(i) == inb[i].kind = "socks5" /\ inb[i].err = "dial"

C20_Inv ==
    \A i \in Conns :
        DialFailed(i) =>
            LET r == inb[i] IN
            /\ r.pc = "done" /\ r.closed
            /\ ~r.bridged /\ r.up = "none"
            /\ Len(Replies(r.out)) = 1
            /\ Replies(r.out)[1].code = RepConnectionRefused
            /\ r.out[Len(r.out)] = Replies(r.out)[1]
C20_Step ==
    \A i \in Conns :
        (inb[i].kind = "socks5" /\ inb[i].pc = "dial" /\ inb'[i].pc = "done") =>
            /\ DialFailed(i)'
            /\ Len(inb'[i].out) = Len(inb[i].out) + 1
            /\ SubSeq(inb'[i].out, 1, Len(inb[i].out)) = inb[i].out
            /\ Replies(inb[i].out) = <<>>

\* C20: when handleConn has parsed a CONNECT request and the dial fails, the
\* step that ends the handler writes one reply, with rep 0x05, the only reply
\* and the last frame the connection ever gets, and closes the inbound
\* connection; no upstream connection exists and CopyBidirectional is never
\* entered for it.
C20_DialFailureRefusesAndCloses == []C20_Inv /\ [][C20_Step]_vars

\* A failed dial after an IPv6 request: method reply, refusal, closed.
C20_Witness ==
    \E i \in Conns :
        /\ DialFailed(i) /\ inb[i].closed
        /\ inb[i].atyp = ATYPIPv6
        /\ Len(inb[i].out) = 2
        /\ inb[i].out[2] = NewReply(RepConnectionRefused, ATYPIPv6, IPv6zero, PortZero, TRUE)


\* The address type a failure reply must carry for a request of type atyp.
ZeroAtyp(atyp) == IF atyp = ATYPIPv6 THEN ATYPIPv6 ELSE ATYPIPv4
AllZero(bytes) == \A n \in 1..Len(bytes) : bytes[n] = 0

\* C21: every reply frame on an inbound SOCKS5 connection has version 0x05
\* and reserved byte 0x00; a reply that is not the success reply carries an
\* all-zero address and port, of type IPv6 with 16 address bytes when the
\* request's address type was IPv6 and of type IPv4 with 4 bytes otherwise.
C21_ReplyFrames ==
    \A i \in Conns :
        \A n \in 1..Len(inb[i].out) :
            LET f == inb[i].out[n] IN
            f.typ = "reply" =>
                /\ f.ver = 5 /\ f.rsv = 0
                /\ f.code # RepSuccess =>
                      /\ f.atyp = ZeroAtyp(inb[i].atyp)
                      /\ (f.atyp = ATYPIPv6) <=> (inb[i].atyp = ATYPIPv6)
                      /\ Len(f.addr) = IF f.atyp = ATYPIPv6 THEN 16 ELSE 4
                      /\ AllZero(f.addr)
                      /\ Len(f.port) = 2 /\ AllZero(f.port)

\* One connection got a failure reply for an IPv6 request, another for a
\* domain-name request.
C21_Witness ==
    \E i, j \in Conns :
        /\ inb[i].atyp = ATYPIPv6 /\ inb[j].atyp = ATYPDomain
        /\ \E n \in 1..Len(inb[i].out) :
             inb[i].out[n].typ = "reply" /\ inb[i].out[n].code = RepCommandNotSupported
        /\ \E n \in 1..Len(inb[j].out) :
             inb[j].out[n].typ = "reply" /\ inb[j].out[n].code = RepConnectionRefused

\* Connection i is with handleConnect (an HTTP CONNECT request).
Connect(i) == inb[i].kind = "http" /\ inb[i].pc # "served"
Is200(f) == f.typ = "http" /\ f.code = 200

C25_Inv ==
    \A i \in Conns :
        Connect(i) =>
            LET r == inb[i] IN
            /\ (\E n \in 1..Len(r.out) : Is200(r.out[n])) =>
                  /\ Is200(r.out[1]) /\ r.up # "none" /\ r.bridged
                  /\ \A n \in 2..Len(r.out) : r.out[n] = Payload
            /\ (\E n \in 1..Len(r.out) : r.out[n] = Payload) => Is200(r.out[1])
            /\ r.err = "dial" =>
                  /\ Len(r.out) = 1 /\ r.out[1].typ = "http" /\ r.out[1].code = 502
                  /\ r.pc = "done" /\ r.closed /\ ~r.bridged /\ r.up = "none"
            /\ (r.pc = "done" /\ r.up = "none" /\ r.err # "hijack") => r.err = "dial"
C25_Step ==
    \A i \in Conns :
        (Connect(i)' /\ Len(inb'[i].out) > Len(inb[i].out)
                    /\ Is200(inb'[i].out[Len(inb'[i].out)])) =>
            /\ inb[i].pc = "reply" /\ inb[i].up = "open"
            /\ inb[i].out = <<>>
            /\ inb'[i].pc = "bridge"

\* C25: handleConnect writes the 200 response in a step that follows a
\* successful dial and enters CopyBidirectional, as the first thing on the
\* connection, so that payload is relayed only after it; a connection whose
\* dial failed gets exactly a 502 response, is closed, has no upstream
\* connection and is never bridged.
C25_EstablishedAfterDialBeforePayload == []C25_Inv /\ [][C25_Step]_vars

\* One CONNECT was answered 200 and relayed payload, another was answered 502
\* and closed.
C25_Witness ==
    \E i, j \in Conns :
        /\ Connect(i) /\ Len(inb[i].out) = 2
        /\ Is200(inb[i].out[1]) /\ inb[i].out[2] = Payload
        /\ Connect(j) /\ inb[j].err = "dial" /\ inb[j].closed
        /\ inb[j].out = <<HTTPResponse(502, TRUE)>>

(***************************************************************************)
(* Part VII.  run (main package, part_033 36-183): the listeners it        *)
(*   starts, their serve loops in one errgroup, the context that a signal  *)
(*   or the errgroup cancels, and the connections the loops accept.  The   *)
(*   goroutines are followed until they stop by themselves, also after run *)
(*   has returned.                                                         *)
(***************************************************************************)
Listeners == {"debug", "http", "socks5", "tproxy"}
\* part_033 96, 117: these two are served by an http.Server.
HTTPServed == {"debug", "http"}
\* part_033 67-69: at least one of the three proxy listeners is required.
Enabled == {e \in SUBSET Listeners : e \cap {"http", "socks5", "tproxy"} # {}}

NoProc == [pc |-> "init", enabled |-> {}, timeout |-> 0, sig |-> FALSE,
           ctx |-> "live", gerr |-> "nil", ret |-> "none"]
NoListener == [loop |-> "off", open |-> FALSE, hook |-> "none", err |-> "nil"]
NoPConn == [lst |-> "none", phase |-> "none", closed |-> FALSE]

RunInit ==
    /\ proc = NoProc
    /\ lsn = [l \in Listeners |-> NoListener]
    /\ pcn = [c \in PConns |-> NoPConn]

\* part_033 62-174: flags, dialer and listeners; any error here is returned at
\* once.  Else every enabled listener is open, its close hook is armed on ctx
\* and its serve loop runs in the errgroup, and run waits in g.Wait().
RunStart ==
    /\ proc.pc = "init"
    /\ \E enabled \in SUBSET Listeners, timeout \in NegotiationTimeouts,
          ok \in BOOLEAN :
         IF ~ok \/ enabled \notin Enabled
         THEN /\ proc' = [proc EXCEPT !.pc = "returned", !.ret = "startup"]
              /\ lsn' = lsn
         ELSE /\ proc' = [proc EXCEPT !.pc = "waiting", !.enabled = enabled,
                                      !.timeout = timeout]
              /\ lsn' = [l \in Listeners |->
                           IF l \in enabled
                           THEN [loop |-> "serving", open |-> TRUE,
                                 hook |-> "armed", err |-> "nil"]
                           ELSE NoListener]
    /\ UNCHANGED <<pcn, notRun>>

\* part_033 93: signal.NotifyContext cancels ctx on SIGINT or SIGTERM.
Signal ==
    /\ proc.pc = "waiting"
    /\ ~proc.sig
    /\ proc' = [proc EXCEPT !.sig = TRUE, !.ctx = "done"]
    /\ UNCHANGED <<lsn, pcn, notRun>>

\* http.Server.Close closes the connections the server still owns: those
\* whose request it is reading or serving, not the hijacked ones.
ServerClose(l, conns) ==
    [c \in PConns |->
        IF conns[c].lst = l /\ conns[c].phase = "request"
        THEN [conns[c] EXCEPT !.phase = "done", !.closed = TRUE]
        ELSE conns[c]]

\* part_033 103-106, 123-126, 143-145, 163-165: the AfterFunc hook on ctx
\* closes the listener, and for debug and http first the http.Server.
ListenerHook(l) ==
    /\ lsn[l].hook = "armed"
    /\ proc.ctx = "done"
    /\ lsn' = [lsn EXCEPT ![l].hook = "fired", ![l].open = FALSE]
    /\ pcn' = IF l \in HTTPServed THEN ServerClose(l, pcn) ELSE pcn
    /\ UNCHANGED <<proc, notRun>>

\* The phase a freshly accepted connection is in: the http.Server reads a
\* request, handleConn negotiates (socks5_server.go 146-153), the
\* transparent handler dials at once.
FirstPhase(l) ==
    CASE l \in HTTPServed -> "request"
      [] l = "socks5" -> "negotiate"
      [] OTHER -> "dial"

\* socks5_server.go 123-133: Accept returns a connection and a goroutine
\* handles it.  Connections are numbered in the order they are accepted.
Accept(l, c) ==
    /\ lsn[l].loop = "serving" /\ lsn[l].open
    /\ pcn[c].phase = "none"
    /\ \A b \in 1..(c - 1) : pcn[b].phase # "none"
    /\ pcn' = [pcn EXCEPT ![c] = [NoPConn EXCEPT !.lst = l, !.phase = FirstPhase(l)]]
    /\ UNCHANGED <<proc, lsn, notRun>>

\* errgroup.Group.Go: the first non-nil error of a goroutine is kept and
\* cancels the group's context, which is the parent of ctx (part_033 91-93).
GroupErrorKeepsContext(p, err) == [p EXCEPT !.gerr = IF @ = "nil" THEN err ELSE @]
GroupError(p, err) ==
    [p EXCEPT !.gerr = IF @ = "nil" THEN err ELSE @, !.ctx = "done"]

\* The error a serve loop returns once its listener is closed: http.Server
\* reports ErrServerClosed, the accept loops of socks5_server.go 123-126 and
\* tproxy wrap the error of Accept on a closed listener.
ClosedError(l) == IF l \in HTTPServed THEN "server closed" ELSE "closed listener"

\* part_033 108-113, 128-133, 147-152, 167-172 with socks5_server.go 123-126:
\* the serve loop returns because its listener was closed; the error, never
\* nil, goes to the errgroup.
ServeReturns(l) ==
    /\ lsn[l].loop = "serving" /\ ~lsn[l].open
    /\ lsn' = [lsn EXCEPT ![l].loop = "returned", ![l].err = ClosedError(l)]
    /\ proc' = GroupError(proc, ClosedError(l))
    /\ UNCHANGED <<pcn, notRun>>

\* socks5_server.go 123-126: Accept fails on an open listener and the loop
\* returns that error.
AcceptError(l) ==
    /\ lsn[l].loop = "serving" /\ lsn[l].open
    /\ Cardinality({k \in Listeners : lsn[k].err = "accept"}) < MaxAcceptErrors
    /\ lsn' = [lsn EXCEPT ![l].loop = "returned", ![l].err = "accept"]
    /\ proc' = GroupError(proc, "accept")
    /\ UNCHANGED <<pcn, notRun>>

\* part_033 177-179: errors.Is(err, http.ErrServerClosed)
IsServerClosed(err) == err = "server closed"

\* part_033 176-182: g.Wait returns the first error once every serve loop
\* has returned; "server closed" becomes nil.
RunReturns ==
    /\ proc.pc = "waiting"
    /\ \A l \in proc.enabled : lsn[l].loop = "returned"
    /\ proc' = [proc EXCEPT !.pc = "returned", !.ctx = "done",
                            !.ret = IF IsServerClosed(proc.gerr) THEN "nil" ELSE "err"]
    /\ UNCHANGED <<lsn, pcn, notRun>>

\* The peer or the upstream lets the handler get on: the client's request or
\* handshake arrives (CONNECT or one that is served and done), the dial
\* succeeds (not with ctx done), both copies of the bridge end.
ConnProgress(c) ==
    /\ pcn[c].phase \in {"request", "negotiate", "dial", "bridge"}
    /\ \E next \in CASE pcn[c].phase = "request" -> {"dial", "done"}
                     [] pcn[c].phase = "negotiate" -> {"dial"}
                     [] pcn[c].phase = "dial" ->
                            IF proc.ctx = "done" THEN {} ELSE {"bridge"}
                     [] OTHER -> {"done"} :
         pcn' = [pcn EXCEPT ![c].phase = next, ![c].closed = (next = "done")]
    /\ UNCHANGED <<proc, lsn, notRun>>

\* socks5_server.go 127-133, 146-179: a negotiation, dial or bridge error
\* ends the handler, which closes its connection; the error is at most
\* logged.
ConnError(c) ==
    /\ pcn[c].phase \in {"request", "negotiate", "dial", "bridge"}
    /\ pcn' = [pcn EXCEPT ![c].phase = "done", ![c].closed = TRUE]
    /\ UNCHANGED <<proc, lsn, notRun>>

\* socks5_server.go 142-144: with a negotiation timeout the reads of the
\* negotiation fail when the deadline passes.
ConnDeadline(c) ==
    /\ pcn[c].phase = "negotiate"
    /\ proc.timeout > 0
    /\ pcn' = [pcn EXCEPT ![c].phase = "done", ![c].closed = TRUE]
    /\ UNCHANGED <<proc, lsn, notRun>>

\* The phases of a handler that ctx reaches: DialContext(ctx, ...)
\* (socks5_server.go 161) and CopyBidirectional(ctx, ...) (177, copy.go
\* 24-28); the negotiation (146-153) reads the connection without ctx.
CancelReaches == {"dial", "bridge"}

\* ctx is done: the dial fails, or the bridge's hook closes both streams and
\* CopyBidirectional returns; the handler returns and closes its connection.
ConnCancel(c) ==
    /\ proc.ctx = "done"
    /\ pcn[c].phase \in CancelReaches
    /\ pcn' = [pcn EXCEPT ![c].phase = "done", ![c].closed = TRUE]
    /\ UNCHANGED <<proc, lsn, notRun>>

RunNext ==
    \/ RunStart
    \/ Signal
    \/ RunReturns
    \/ \E l \in Listeners :
         \/ ListenerHook(l)
         \/ ServeReturns(l)
         \/ AcceptError(l)
         \/ \E c \in PConns : Accept(l, c)
    \/ \E c \in PConns :
         \/ ConnProgress(c)
         \/ ConnError(c)
         \/ ConnDeadline(c)
         \/ ConnCancel(c)

\* Hooks, serve loops, run and the handlers are goroutines that get to run;
\* a deadline passes.  Clients and upstreams owe nothing.
RunFairness ==
    /\ WF_vars(RunReturns)
    /\ \A l \in Listeners : WF_vars(ListenerHook(l)) /\ WF_vars(ServeReturns(l))
    /\ \A c \in PConns : WF_vars(ConnDeadline(c)) /\ WF_vars(ConnCancel(c))

AcceptFailed == \E l \in Listeners : lsn[l].err = "accept"
Handling(c) == pcn[c].phase \in {"request", "negotiate", "dial", "bridge"}

\* C26: run returns nil when the process was stopped by a signal, whichever
\* listeners are enabled; it returns an error only when start-up failed or a
\* serve loop failed on a listener that had not been closed.
C26_SignalShutdownReturnsNil ==
    proc.pc = "returned" =>
        /\ (proc.sig /\ ~AcceptFailed) => proc.ret = "nil"
        /\ proc.ret # "nil" => (proc.ret = "startup" \/ AcceptFailed)

\* A step of a connection's handler touches that connection only: run, the
\* context, every listener and every other connection stay as they are.
C27_Step ==
    (pcn' # pcn /\ lsn' = lsn) =>
        /\ proc' = proc
        /\ \E c \in PConns : \A b \in PConns \ {c} : pcn'[b] = pcn[b]
\* A listener's hook closes connections of that listener's server only.
C27_HookStep ==
    \A l \in Listeners : \A c \in PConns :
        (lsn'[l] # lsn[l] /\ pcn'[c] # pcn[c]) => pcn[c].lst = l

\* C27 (as stated): no per-connection error reaches a listener or another
\* connection, an accept error ends the accept loop of its listener only,
\* and nothing but a signal shuts the process down.
C27_ErrorsNeverCrossListeners ==
    /\ [][C27_Step /\ C27_HookStep]_vars
    /\ [](\A l \in Listeners :
            (lsn[l].hook = "fired" \/ (lsn[l].loop = "returned" /\ lsn[l].err # "accept"))
                => proc.sig)
    /\ []((proc.ctx = "done" /\ proc.pc = "waiting") => proc.sig)

\* C27 (amended): no per-connection error reaches a listener, the context or
\* another connection; an accept error ends the accept loop of its listener
\* and, as the first error of the errgroup, cancels the context of the whole
\* process, so that the other listeners are closed too; the context is
\* cancelled by a signal or by the error of a serve loop, by nothing else.
C27_OnlyServeLoopErrorsCross ==
    /\ [][C27_Step /\ C27_HookStep]_vars
    /\ [](AcceptFailed => proc.ctx = "done")
    /\ [](\A l \in Listeners :
            (lsn[l].hook = "fired" \/ (lsn[l].loop = "returned" /\ lsn[l].err # "accept"))
                => (proc.sig \/ AcceptFailed))
    /\ []((proc.ctx = "done" /\ proc.pc = "waiting") => (proc.sig \/ AcceptFailed))

\* Without any signal, an accept error on the SOCKS5 listener closed the HTTP
\* listener, whose loop returned, while a connection is still being handled.
C27_Witness ==
    /\ ~proc.sig
    /\ lsn["socks5"].err = "accept"
    /\ lsn["http"].loop = "returned" /\ lsn["http"].err = "server closed"
    /\ \E c \in PConns : Handling(c)

\* C28: once a signal has cancelled the context, every accept loop returns
\* and every connection in flight - negotiating, dialling or bridging - is
\* closed and its handler over.
C28_SignalStopsLoopsAndConnections ==
    proc.sig ~>
        /\ \A l \in proc.enabled : lsn[l].loop = "returned"
        /\ \A c \in PConns : ~Handling(c)

(***************************************************************************)
(* Part VIII.  dialer.New (dialer.go 39-95): the upstream URL, as          *)
(*   url.Parse hands it over, and the constructors New ends in.            *)
(***************************************************************************)
\* The upstream strings are taken by what url.Parse makes of them: a parse
\* error, or Scheme, Hostname(), Port(), Path and User.  "HTTp", "SOCKS5"
\* and "Ssh" are schemes written with capitals, "gopher" is an unknown one.
Schemes == {"", "direct", "http", "HTTp", "https", "socks5", "SOCKS5", "ssh",
            "Ssh", "gopher"}
URLHosts == {"", "proxy.example"}
URLPorts == {"", "8080"}
Paths == {"", "/", "/foo"}
URLUsers == {"", "user"}
URLPasswords == {"", "pass"}
\* cfg.SSHKeyPath: none, a key that loads, a file that does not.
SSHKeyPaths == {"", "key", "unreadable"}
URLs == [bad : {FALSE}, scheme : Schemes, host : URLHosts, port : URLPorts,
         path : Paths, user : URLUsers, pass : URLPasswords]
          \cup {[bad |-> TRUE, scheme |-> "", host |-> "", port |-> "",
                 path |-> "", user |-> "", pass |-> ""]}

\* dialer.go 45: strings.ToLower on the schemes above.
ToLower(s) ==
    CASE s = "HTTp" -> "http"
      [] s = "SOCKS5" -> "socks5"
      [] s = "Ssh" -> "ssh"
      [] OTHER -> s

\* dialer.go 82-95
defaultPortForScheme(scheme) ==
    CASE scheme = "http" -> "80"
      [] scheme = "https" -> "443"
      [] scheme = "socks5" -> "1080"
      [] scheme = "ssh" -> "22"
      [] OTHER -> ""

\* What New returns: the dialer's type and the proxy address it was given,
\* or an error.
Rejected(err) == [kind |-> "nil", host |-> "", port |-> "", err |-> err]
Built(kind, host, port) == [kind |-> kind, host |-> host, port |-> port, err |-> "nil"]
NoNew == [pc |-> "idle", key |-> "", url |-> CHOOSE u \in URLs : u.bad,
          ret |-> Rejected("none")]

\* u.Host, a "host:port" string, is empty when both parts are.
HostEmpty(host, port) == host = "" /\ port = ""

\* part_011 15-22
NewDirectDialer == Built("direct", "", "")

\* part_007 41-68: the proxy URL must have a host name.
NewHTTPProxyDialer(host, port) ==
    IF host = "" THEN Rejected("invalid proxy host") ELSE Built("http", host, port)

\* socks5_proxy.go 27-38: the proxy address must not be empty.
NewSOCKS5ProxyDialer(host, port) ==
    IF HostEmpty(host, port) THEN Rejected("missing proxy address")
    ELSE Built("socks5", host, port)

\* ssh_proxy.go 54-84: address, username, then the key file, and a password
\* or a key.
NewSSHProxyDialer(key, host, port, username, password) ==
    CASE HostEmpty(host, port) -> Rejected("missing ssh address")
      [] username = "" -> Rejected("missing username")
      [] key = "unreadable" -> Rejected("reading key file")
      [] password = "" /\ key = "" -> Rejected("missing password or key")
      [] OTHER -> Built("ssh", host, port)

\* dialer.go 39-80
New(key, u) ==
    LET scheme == ToLower(u.scheme)
        port == IF u.host # "" /\ u.port = ""
                THEN defaultPortForScheme(scheme) ELSE u.port
    IN  CASE u.bad -> Rejected("invalid url")
          [] u.path # "" /\ u.path # "/" -> Rejected("path should be empty")
          [] scheme = "" -> Rejected("missing scheme")
          [] scheme = "direct" -> NewDirectDialer
          [] scheme \in {"http", "https"} -> NewHTTPProxyDialer(u.host, port)
          [] scheme = "socks5" -> NewSOCKS5ProxyDialer(u.host, port)
          [] scheme = "ssh" -> NewSSHProxyDialer(key, u.host, port, u.user, u.pass)
          [] OTHER -> Rejected("invalid url scheme")

NewInit == nw = NoNew

\* main calls New once with the configuration and the upstream string.
NewCall ==
    /\ nw.pc = "idle"
    /\ \E key \in SSHKeyPaths, u \in URLs :
         nw' = [pc |-> "done", key |-> key, url |-> u, ret |-> New(key, u)]
    /\ UNCHANGED notNew

NewNext == NewCall

Supported == {"direct", "http", "https", "socks5", "ssh"}
Accepted == nw.pc = "done" /\ nw.ret.err = "nil"

\* C29: New accepts the upstream URL exactly when its scheme, whatever its
\* case, is direct, http, https, socks5 or ssh, it has a host (direct needs
\* none), its path is empty or "/", and an ssh URL has a username; the
\* dialer of a URL without port gets the default port of the scheme.
C29_NewAcceptsWellFormedOnly ==
    nw.pc = "done" =>
        LET u == nw.url
            scheme == ToLower(u.scheme)
        IN  /\ Accepted <=>
                 /\ ~u.bad
                 /\ scheme \in Supported
                 /\ scheme = "direct" \/ u.host # ""
                 /\ u.path \in {"", "/"}
                 /\ scheme = "ssh" => u.user # ""
            /\ (Accepted /\ scheme # "direct" /\ u.port = "") =>
                 nw.ret.port = defaultPortForScheme(scheme)

(***************************************************************************)
(* ClientDial against the server helpers over a synchronous pipe, checked  *)
(* under SpecSocks5PipeFair.                                               *)
(***************************************************************************)
\* A side is inside a Read that no frame and no Close can end yet.
ClientWaitsToRead ==
    /\ s5c.pc \in {"negotiate", "userpass", "reply"}
    /\ s5p.c2s = <<>> /\ s5p.s2c = <<>> /\ ~s5p.sclosed
ServerWaitsToRead ==
    /\ s5s.pc \in {"negotiate", "userpass", "request"}
    /\ s5p.s2c = <<>> /\ s5p.c2s = <<>> /\ ~s5p.cclosed
\* A side is inside a Write the peer has not read.
ClientWaitsToWrite == s5c.pc \notin {"idle", "done"} /\ s5p.c2s # <<>> /\ ~s5p.sclosed
ServerWaitsToWrite == s5s.pc \notin {"idle", "done"} /\ s5p.s2c # <<>> /\ ~s5p.cclosed
OnPipe == s5p.sync /\ s5c.pc # "idle"
BothReturned == s5c.pc = "done" /\ s5s.pc = "done"

C40_Inv ==
    OnPipe =>
        /\ ~(ClientWaitsToRead /\ ServerWaitsToRead)
        /\ ~(ClientWaitsToWrite /\ ServerWaitsToWrite)

\* C40: over a synchronous pipe whose ends are closed when their side
\* returns, ClientDial and the server helpers are never both waiting to read
\* nor both waiting to write, and both return, for every pair of client
\* credentials and server Auth, either CONNECT outcome and every address.
C40_PipeNegotiationTerminates ==
    /\ []C40_Inv
    /\ OnPipe ~> BothReturned

\* Over the pipe, the client was refused by the server's credentials check
\* and both sides have returned.
C40_Witness ==
    /\ OnPipe /\ BothReturned
    /\ s5c.ret = "auth failed" /\ s5s.ret = "auth failed"
    /\ s5p.cclosed /\ s5p.sclosed

(***************************************************************************)
(* What the inbound handlers leave open, checked under SpecProxyFair.      *)
(***************************************************************************)
\* The handler of connection i has returned, having had the inbound socket
\* in its hands: handleConn and handle get it from the accept loop,
\* handleConnect from Hijack.
Exited(i) ==
    /\ inb[i].kind \in {"socks5", "http", "tproxy"}
    /\ inb[i].pc = "done"
    /\ inb[i].err # "hijack"
AllClosed(i) == inb[i].closed /\ inb[i].up # "open"
\* handleConn and handle close in their defers, handleConnect closes the
\* client connection itself when the dial fails.
ClosedOnReturn(i) == inb[i].kind \in {"socks5", "tproxy"} \/ ~inb[i].bridged

C39_Inv == \A i \in Conns : (Exited(i) /\ ClosedOnReturn(i)) => AllClosed(i)

\* C39: a handler that returns, on whatever path, leaves the inbound socket
\* and the upstream stream (if it dialled one) closed, at once through its
\* defers or its own Close, and after the HTTP CONNECT tunnel as soon as the
\* hook of CopyBidirectional has run.
C39_HandlersCloseBothEnds ==
    /\ []C39_Inv
    /\ \A i \in Conns : Exited(i) ~> AllClosed(i)

\* An HTTP CONNECT tunnel ended with the upstream stream still open and the
\* hook closed it, and a transparent connection ended closed.
C39_Witness ==
    \E i \in Conns, j \in Conns :
        /\ inb[i].kind = "http" /\ Exited(i) /\ inb[i].bridged
        /\ inb[i].hook = "ran" /\ AllClosed(i)
        /\ inb[j].kind = "tproxy" /\ Exited(j) /\ AllClosed(j)

(***************************************************************************)
(* More claims about the SSH Client, checked under SpecSSH.                *)
(***************************************************************************)
\* Caller c's ctx was done while its first channel open was in progress: the
\* open ended with the error of ctx.
CancelledInOpen(c) == openLog[c] # <<>> /\ openLog[c][1] = CtxErr
\* A step of caller c's DialContext.
StepOf(c) == pc'[c] # pc[c]

C34_Step ==
    \A c \in Callers :
        (CancelledInOpen(c) /\ StepOf(c)) =>
            /\ sshClient' = sshClient
            /\ \A t \in Transports : tr'[t].closed = tr[t].closed
            /\ sfKey' = sfKey /\ nextT' = nextT

\* C34: a call whose ctx is done during its channel open returns an error,
\* and from there on no step of that call clears the cache, closes a
\* transport or starts a connect attempt.
C34_CancelledOpenKeepsTransport ==
    /\ [](\A c \in Callers :
            (CancelledInOpen(c) /\ pc[c] = "done") => ret[c].status = "err")
    /\ [][C34_Step]_vars

\* The invalidation of caller c (client.go 134) after its open failed on the
\* transport client[c]: the step that clears the cache and the step that
\* closes what was taken from it.
C35_Step ==
    \A c \in Callers :
        /\ (pc[c] = "close_clear" /\ StepOf(c)) =>
              sshClient \in {NoTransport, client[c]}
        /\ (pc[c] = "close_close" /\ StepOf(c)) =>
              \A t \in Transports \ {client[c]} : tr'[t].closed = tr[t].closed

\* C35: the invalidation by a call that saw a failure of transport X clears
\* the cache only of X and closes only X, never a transport Y that another
\* call has cached meanwhile.
C35_InvalidationHitsOnlyFailed == [][C35_Step]_vars

\* The connect attempt of starter k has failed and is about to be delivered.
FailedAttempt(k) == sfCall[k].pc = "deliver" /\ sfCall[k].err # NoErr
Failed(t) == tr[t].state \in {"fail", "aborted"}

C36_Step ==
    /\ \A k \in Callers :
         \* newTransport fails: the cache is left as it is
         /\ (sfCall[k].pc = "hs" /\ sfCall'[k].pc = "deliver" /\ sfCall'[k].err # NoErr) =>
               sshClient' = sshClient
         \* the failure goes to every caller waiting on the call, and the call
         \* is forgotten
         /\ (FailedAttempt(k) /\ sfCall'[k].pc # "deliver") =>
               /\ \A c \in sfCall[k].chans :
                    pc[c] = "gt_wait" =>
                        (res'[c].ready /\ res'[c].err = sfCall[k].err)
               /\ sfKey' # k
    /\ \A c \in Callers :
         \* a waiter that takes the failure returns an error
         /\ (pc[c] = "gt_wait" /\ res[c].ready /\ res[c].err # NoErr /\ StepOf(c)) =>
               /\ pc'[c] = "done" /\ ret'[c].status = "err"
               /\ (FirstAttempt(c) /\ ~ctxDone[c]) => ret'[c].err = res[c].err
         \* a DoChan waits on a fresh channel, and with no call in flight it
         \* launches a new one
         /\ (pc[c] = "gt_dochan" /\ StepOf(c)) => ~res'[c].ready
         /\ (pc[c] = "gt_dochan" /\ sfKey = NoKey /\ StepOf(c)) =>
               (sfKey' = c /\ sfCall'[c].pc = "check" /\ sfCall'[c].err = NoErr)

C36_Inv ==
    /\ \A t \in Transports : Failed(t) => sshClient # t
    \* the key in use belongs to a call that is running
    /\ sfKey # NoKey => sfCall[sfKey].pc # "idle"

\* C36: when the handshake of a connect attempt fails, nothing is stored in
\* the cache, every caller waiting on the attempt is handed the error and
\* returns an error, and the attempt is forgotten: the next DoChan launches a
\* new attempt and no caller is handed a failure it was not waiting for.
C36_FailedConnectFansOutAndIsForgotten == []C36_Inv /\ [][C36_Step]_vars

\* A handshake failed, a caller returned its error, and a later connect
\* attempt filled the cache.
C36_Witness ==
    /\ Failed(1)
    /\ \E c \in Callers : pc[c] = "done" /\ ret[c].err = HandshakeErr(1)
    /\ tr[2].state = "up" /\ sshClient = 2

\* The transport on which call c's first channel open ran.
FirstTransport(c) == IF openLog[c] = <<>> THEN NoTransport ELSE openLog[c][1].t

\* Call c found its transport dead in its first channel open and has returned.
Absorbed(c) ==
    /\ pc[c] = "done" /\ openLog[c] # <<>>
    /\ openLog[c][1].kind = "transport"
\* The SSH server is reachable during call c: no handshake failed, no
\* transport but the one c found dead broke, and no channel open was refused.
ServerReachable(c) ==
    /\ \A t \in Transports : ~Failed(t) /\ (tr[t].dead => t = FirstTransport(c))
    /\ \A i \in 1..Len(openLog[c]) : openLog[c][i].kind # "openchannel"
\* c has run with no other call started, and its ctx was not cancelled.
RanAlone(c) ==
    /\ ~ctxDone[c]
    /\ \A d \in Callers \ {c} : pc[d] = "idle"

C37_Recovered(c) ==
    /\ ret[c] = RetOK /\ invals[c] = 1
    /\ chan[c].t # NoTransport /\ chan[c].t # FirstTransport(c)
    /\ sshClient = chan[c].t /\ Usable(sshClient)
    /\ tr[FirstTransport(c)].closed

\* As long as no later call met a failure of its own, a later call d runs on
\* c's replacement and no other transport is created.
C37_Reuses(c, d) ==
    (\A e \in Callers \ {c} : invals[e] = 0) =>
        /\ pc[d] = "open" => client[d] = chan[c].t
        /\ (pc[d] = "done" /\ ret[d].status = "ok") => chan[d].t = chan[c].t
        /\ \A t \in Transports \ {FirstTransport(c), chan[c].t} :
              tr[t].state = "none"

\* C37: a call that runs alone, finds the cached transport dead and can
\* reach the SSH server returns a channel on a replacement transport, which
\* is then the cached one; a call started afterwards gets its channel on the
\* replacement, with no further handshake.
C37_DeadTransportIsReplacedAndReused ==
    \A c \in Callers :
        [](  (Absorbed(c) /\ ServerReachable(c) /\ RanAlone(c)) =>
                /\ C37_Recovered(c)
                /\ \A d \in Callers \ {c} : []C37_Reuses(c, d)  )

\* c recovered alone and a later call d holds a channel on the replacement.
C37_Witness ==
    \E c \in Callers :
        /\ Absorbed(c) /\ ServerReachable(c) /\ ~ctxDone[c]
        /\ ret[c] = RetOK
        /\ \E d \in Callers \ {c} :
              /\ pc[d] = "done" /\ ret[d] = RetOK /\ chan[d].t = chan[c].t
              /\ openLog[d] = <<NoErr>>

\* Transport t was created (its handshake is over) and is still open.
Open38(t) == tr[t].state # "none" /\ tr[t].state # "hs" /\ ~tr[t].closed
\* Some call has taken t out of the cache in Close and is about to close it.
BeingClosed(t) == \E c \in Callers : pc[c] = "close_close" /\ closeLocal[c] = t

C38_Inv == \A t \in Transports : Open38(t) => (sshClient = t \/ BeingClosed(t))

C38_Step ==
    sshClient' # sshClient =>
        \/ /\ sshClient = NoTransport
           \* filled by the single-flight connect
           /\ sfKey # NoKey /\ sfCall[sfKey].pc = "hs" /\ sfCall[sfKey].t = sshClient'
        \/ /\ sshClient' = NoTransport
           \* emptied by Close, which keeps what it took
           /\ \E c \in Callers : pc[c] = "close_clear" /\ closeLocal'[c] = sshClient

EndedClean(s) == cp[s].end \in {"eof", "errclosed"}
EndedWithError(s) == cp[s].end = "io"

\* C33: when CopyBidirectional has returned, its result is nil if each
\* direction ended with EOF or with the error of a conn closed by the hook or
\* by the other direction, and it is an error only if some direction ended
\* with another I/O error.
C33_NilUnlessIOError ==
    grp.pc = "returned" =>
        /\ (\A s \in Streams : EndedClean(s)) => grp.err = "nil"
        /\ grp.err # "nil" => \E s \in Streams : EndedWithError(s)

\* CopyBidirectional returned nil after a cancellation: a direction ended on
\* a conn the hook had closed.
C33_Witness ==
    /\ grp.pc = "returned" /\ grp.err = "nil" /\ grp.cancelled
    /\ \E s \in Streams : cp[s].end = "errclosed"

(***************************************************************************)
(* The deadline of the SOCKS5 listener's handler.                          *)
(***************************************************************************)
Socks5Conns == {i \in Conns : inb[i].kind = "socks5"}

\* C32: in handleConn the deadline of a configured negotiation timeout is on
\* the inbound socket from before the first read until the success reply is
\* written, through negotiation, request and dial; it is cleared after that
\* reply and before CopyBidirectional, so that no deadline of the handler is
\* in force while, and after, the tunnel is bridged.
C32_DeadlineOnlyDuringHandshake ==
    \A i \in Socks5Conns :
        /\ inb[i].pc \in {"negotiate", "request", "dial", "reply"} =>
              inb[i].deadline = (inb[i].timeout > 0)
        /\ inb[i].bridged => (~inb[i].deadline /\ SuccessReplied(i))

\* A handler with a negotiation timeout is bridging.
C32_Witness ==
    \E i \in Socks5Conns :
        inb[i].timeout > 0 /\ inb[i].pc = "bridge" /\ ~inb[i].deadline

(***************************************************************************)
(* The order of the frames of one SOCKS5 negotiation.                      *)
(***************************************************************************)
\* greeting -> method -> request -> reply, and the same with the
\* username/password exchange after the method, as the client sees them ...
ClientOrderNoAuth ==
    << <<"w", "methods">>, <<"r", "method">>, <<"w", "request">>, <<"r", "reply">> >>
ClientOrderUserPass ==
    << <<"w", "methods">>, <<"r", "method">>, <<"w", "userpass">>, <<"r", "status">>,
       <<"w", "request">>, <<"r", "reply">> >>
\* ... and as the server does.
Mirror(order) ==
    [n \in 1..Len(order) |-> <<IF order[n][1] = "w" THEN "r" ELSE "w", order[n][2]>>]
\* The method a side saw selected: the client read it, the server chose it.
ClientSelected == IF Len(s5c.read) > 0 THEN s5c.read[1].code ELSE MethodNoAcceptable
ServerSelected ==
    IF s5s.auth.Username # "" THEN MethodUsernamePassword ELSE MethodNone
HasUserPass(io) == \E n \in 1..Len(io) : io[n][2] \in {"userpass", "status"}

\* C31: what ClientDial has written and read is, at every moment, a prefix of
\* greeting, method, request, reply, or of the same with the username/password
\* exchange after the method, and so is what the server helpers have read
\* and written; a side takes part in the username/password exchange only
\* after method 0x02 was selected.
C31_FramesInOrder ==
    /\ IsPrefix(s5c.io, ClientOrderNoAuth) \/ IsPrefix(s5c.io, ClientOrderUserPass)
    /\ HasUserPass(s5c.io) => ClientSelected = MethodUsernamePassword
    /\ s5s.mode = "conduit" =>
          /\ \/ IsPrefix(s5s.io, Mirror(ClientOrderNoAuth))
             \/ IsPrefix(s5s.io, Mirror(ClientOrderUserPass))
          /\ HasUserPass(s5s.io) => ServerSelected = MethodUsernamePassword

\* Client and server went through all six frames.
C31_Witness ==
    /\ s5s.mode = "conduit"
    /\ s5c.io = ClientOrderUserPass
    /\ s5s.io = Mirror(ClientOrderUserPass)

(***************************************************************************)
(* Closing twice.                                                          *)
(***************************************************************************)
\* A Close of caller c's channelConn that finds the channel closed, by an
\* earlier Close or by the cancellation hook.
SecondClose(c) == chan[c].closed /\ chan'[c].closes # chan[c].closes

C30_Step ==
    \A c \in Callers :
        SecondClose(c) =>
            /\ chan'[c] = [chan[c] EXCEPT !.closes = @ + 1]
            /\ \A d \in Callers \ {c} : chan'[d] = chan[d]
            /\ tr' = tr /\ sshClient' = sshClient
            /\ ret' = ret /\ openLog' = openLog

\* The hook a Close has stopped stays stopped, and a closed channel closed.
C30_HookStep ==
    \A c \in Callers :
        /\ chan[c].hook = "stopped" => chan'[c].hook = "stopped"
        /\ (chan[c].closed /\ chan'[c].t = chan[c].t) => chan'[c].closed

C30_BridgeStep ==
    /\ (grp.hook = "armed" /\ grp'.hook = "running" /\ strm["left"].closed) => strm' = strm
    /\ (grp.hook = "running" /\ grp'.hook = "fired" /\ strm["right"].closed) => strm' = strm
    /\ \A s \in Streams :
         (cp[s].pc = "close" /\ cp'[s].pc = "done" /\ strm[Other(s)].closed) => strm' = strm
\* copy.go 49-52: with no failure but the closes, no goroutine has an error.
C30_BridgeInv ==
    (\A s \in Streams : ~strm[s].broken) =>
        (grp.err = "nil" /\ \A s \in Streams : cp[s].err = "nil")
C30_BridgeDoubleClose == []C30_BridgeInv /\ [][C30_BridgeStep]_vars
C30_BridgeWitness ==
    /\ grp.hook = "fired" /\ grp.pc = "returned"
    /\ \E s \in Streams : ~strm[s].cw /\ cp[Other(s)].end = "eof"

(***************************************************************************)
(* Specifications.                                                         *)
(***************************************************************************)
\* The process after start-up: a Client without transport, no connection
\* accepted, no dial under way.
Init == SSHInit /\ PxInit /\ DlInit /\ BrInit /\ KhInit /\ S5Init /\ RunInit /\ NewInit

SpecSSH == Init /\ [][SSHNext]_vars
SpecProxy == Init /\ [][PxNext]_vars
SpecProxyFair == Init /\ [][PxNext]_vars /\ PxFairness
SpecDial == Init /\ [][DlNext]_vars
SpecDialFair == Init /\ [][DlNext]_vars /\ DlFairness
SpecBridge == Init /\ [][BrNext]_vars
SpecKnownHosts == Init /\ [][KhNext]_vars
SpecSocks5 == Init /\ [][S5Next]_vars
SpecRun == Init /\ [][RunNext]_vars
SpecNew == Init /\ [][NewNext]_vars
SpecRunFair == Init /\ [][RunNext]_vars /\ RunFairness
SpecSocks5Fair == Init /\ [][S5Next]_vars /\ S5Fairness
SpecSocks5PipeFair == Init /\ [][S5Next]_vars /\ S5Fairness /\ S5PipeFairness
SpecBridgeFair == Init /\ [][BrNext]_vars /\ BrFairness

====
